---- MODULE Spec2Model ----
(***************************************************************************)
(* A model of the dutch_postal_address package: name normalization,        *)
(* postcode canonicalization and two-line parsing (address.py), the        *)
(* reference-data loader and its indexes (data_loader.py) and the public   *)
(* entry points (validator.py, corrector.py).                              *)
(*                                                                         *)
(* A Python str is modelled as a sequence of characters; a character is a  *)
(* TLA+ string naming it ("a", " ", "\t", "e_acute" for U+00E9,            *)
(* "comb_acute" for the combining mark U+0301).                            *)
(***************************************************************************)
EXTENDS Integers, Sequences, FiniteSets, TLC

VARIABLES
    nameArg,      \* the str handed to DataLoader._normalize_name
    nameHist,     \* the results of the successive _normalize_name calls
    cmpOther,     \* the second name of a normalized-name comparison
    cmpRes,       \* the outcome of that comparison
    pcArg,        \* the postcode str handed to Address(...)
    addr,         \* the Address built from it
    wplFile,      \* PCS_WPL.dat: Missing or its lines
    strFile,      \* PCS_STR.dat
    hnrFile,      \* PCS_HNR.dat
    loadPc,       \* position of DataLoader.__init__ / _load_all_data
    city_map,     \* DataLoader._city_map
    street_map,   \* DataLoader._street_map
    pc6_index,    \* DataLoader._pc6_index
    pc4_index,    \* DataLoader._pc4_index
    street_id_to_pc6,   \* DataLoader._street_id_to_pc6
    city_name_to_id,    \* DataLoader._city_name_to_id
    street_name_to_id,  \* DataLoader._street_name_to_id
    pc6_cache,    \* the lru_cache of DataLoader.get_addresses_by_pc6
    pc4_cache,    \* the lru_cache of DataLoader.get_cities_by_pc4
    call,         \* the public operation in progress, with its arguments
    result,       \* what the public operation returned or raised
    loads         \* how many times _load_all_data was entered in the process

nameVars == <<nameArg, nameHist, cmpOther, cmpRes>>
addrVars == <<pcArg, addr>>
fileVars == <<wplFile, strFile, hnrFile>>
indexVars == <<city_map, street_map, pc6_index, pc4_index, street_id_to_pc6,
               city_name_to_id, street_name_to_id>>
loadVars == <<loadPc, city_map, street_map, pc6_index, pc4_index,
              street_id_to_pc6, city_name_to_id, street_name_to_id>>
cacheVars == <<pc6_cache, pc4_cache>>
apiVars == <<call, result>>
vars == <<nameArg, nameHist, cmpOther, cmpRes, pcArg, addr, wplFile, strFile,
          hnrFile, loadPc, city_map, street_map, pc6_index, pc4_index,
          street_id_to_pc6, city_name_to_id, street_name_to_id, pc6_cache,
          pc4_cache, call, result, loads>>

\* Python's None, and a raised exception, as values of their own kind.
None == [none |-> TRUE]
Raised(exc) == [raised |-> exc]
IsRaised(r) == "raised" \in DOMAIN r

(***************************************************************************)
(* Bounds of the model.                                                    *)
(***************************************************************************)
MaxNameLen == 3
MaxCalls == 2
MaxPcLen == 7
MaxLines == 2
MaxLoads == 3

(***************************************************************************)
(* Characters and str methods.                                             *)
(***************************************************************************)
LowerLetters == <<"a","b","c","d","e","f","g","h","i","j","k","l","m",
                  "n","o","p","q","r","s","t","u","v","w","x","y","z">>
UpperLetters == <<"A","B","C","D","E","F","G","H","I","J","K","L","M",
                  "N","O","P","Q","R","S","T","U","V","W","X","Y","Z">>
DigitChars == {"0","1","2","3","4","5","6","7","8","9"}

Range(s) == {s[i] : i \in DOMAIN s}

IsLower(c) == c \in Range(LowerLetters) \cup {"e_acute"}
IsUpper(c) == c \in Range(UpperLetters) \cup {"E_acute"}
IsAlpha(c) == IsLower(c) \/ IsUpper(c)
IsDigit(c) == c \in DigitChars
IsSpace(c) == c \in {" ", "\t"}
\* \w of a str pattern: alphanumerics and the underscore; a combining mark is
\* neither.
IsWord(c) == IsAlpha(c) \/ IsDigit(c) \/ c = "_"

IndexIn(seq, c) == CHOOSE i \in DOMAIN seq : seq[i] = c

ToLower(c) ==
    IF c \in Range(UpperLetters) THEN LowerLetters[IndexIn(UpperLetters, c)]
    ELSE IF c = "E_acute" THEN "e_acute"
    ELSE c

ToUpper(c) ==
    IF c \in Range(LowerLetters) THEN UpperLetters[IndexIn(LowerLetters, c)]
    ELSE IF c = "e_acute" THEN "E_acute"
    ELSE c

Lower(s) == [i \in DOMAIN s |-> ToLower(s[i])]
Upper(s) == [i \in DOMAIN s |-> ToUpper(s[i])]

\* str.strip(): leading and trailing whitespace removed.
RECURSIVE LStrip(_)
LStrip(s) == IF s # <<>> /\ IsSpace(Head(s)) THEN LStrip(Tail(s)) ELSE s

RECURSIVE RStrip(_)
RStrip(s) ==
    IF s # <<>> /\ IsSpace(s[Len(s)]) THEN RStrip(SubSeq(s, 1, Len(s) - 1))
    ELSE s

Strip(s) == RStrip(LStrip(s))

\* str.replace(' ', ''): every U+0020 removed, other whitespace kept.
RemoveSpaces(s) == SelectSeq(s, LAMBDA c : c # " ")

\* unicodedata.normalize('NFKD', s): a precomposed letter becomes its base
\* letter followed by the combining mark.
Decompose(c) ==
    IF c = "e_acute" THEN <<"e", "comb_acute">>
    ELSE IF c = "E_acute" THEN <<"E", "comb_acute">>
    ELSE <<c>>

RECURSIVE NFKD(_)
NFKD(s) == IF s = <<>> THEN <<>> ELSE Decompose(Head(s)) \o NFKD(Tail(s))

\* re.sub(r'[^\w\s]', ' ', s)
SubNonWord(s) ==
    [i \in DOMAIN s |-> IF IsWord(s[i]) \/ IsSpace(s[i]) THEN s[i] ELSE " "]

\* re.sub(r'\s+', ' ', s): each maximal run of whitespace becomes one space.
RECURSIVE CollapseSpaces(_)
CollapseSpaces(s) ==
    IF s = <<>> THEN <<>>
    ELSE IF IsSpace(Head(s))
         THEN <<" ">> \o CollapseSpaces(LStrip(Tail(s)))
         ELSE <<Head(s)>> \o CollapseSpaces(Tail(s))

\* A slip in the order of the steps: trimming before the punctuation is
\* replaced.
NormalizeStripFirst(name) ==
    CollapseSpaces(SubNonWord(Strip(Lower(NFKD(name)))))

\* DataLoader._normalize_name
NormalizeName(name) ==
    Strip(CollapseSpaces(SubNonWord(Lower(NFKD(name)))))

(***************************************************************************)
(* address.py: the Address value.                                          *)
(***************************************************************************)
\* str.isdigit() / str.isalpha(): every character, and at least one.
AllDigits(s) == s # <<>> /\ \A i \in DOMAIN s : IsDigit(s[i])
AllAlpha(s) == s # <<>> /\ \A i \in DOMAIN s : IsAlpha(s[i])

\* A slip that returns the argument merely trimmed and upper-cased when it is
\* not a postcode, keeping its interior spaces.
NormalizePostcodeKeepInner(postcode) ==
    LET p == Upper(RemoveSpaces(postcode)) IN
    IF postcode = <<>> THEN <<>>
    ELSE IF Len(p) # 6 THEN Upper(Strip(postcode))
    ELSE IF ~(AllDigits(SubSeq(p, 1, 4)) /\ AllAlpha(SubSeq(p, 5, 6)))
         THEN Upper(Strip(postcode))
    ELSE SubSeq(p, 1, 4) \o <<" ">> \o SubSeq(p, 5, 6)

\* Address._normalize_postcode
NormalizePostcode(postcode) ==
    LET p == Upper(RemoveSpaces(postcode)) IN
    IF postcode = <<>> THEN <<>>
    ELSE IF Len(p) # 6 THEN p
    ELSE IF ~(AllDigits(SubSeq(p, 1, 4)) /\ AllAlpha(SubSeq(p, 5, 6))) THEN p
    ELSE SubSeq(p, 1, 4) \o <<" ">> \o SubSeq(p, 5, 6)

\* Address(...) followed by __post_init__
NewAddress(street_name, house_number, house_number_extension, postcode, city) ==
    [street_name |-> street_name,
     house_number |-> house_number,
     house_number_extension |-> Upper(house_number_extension),
     postcode |-> NormalizePostcode(postcode),
     city |-> city]

\* Address.pc4
Pc4Of(a) ==
    IF a.postcode # <<>> /\ Len(a.postcode) >= 4
    THEN Strip(SubSeq(a.postcode, 1, 4)) ELSE <<>>

\* Address.pc6
Pc6Of(a) == IF a.postcode # <<>> THEN RemoveSpaces(a.postcode) ELSE <<>>


(***************************************************************************)
(* The strings the model draws its inputs from.                            *)
(***************************************************************************)
StringsUpTo(chars, n) == UNION {[1..k -> chars] : k \in 0..n}

NameChars == {"a", "E", "1", " ", "\t", "-", "_", "e_acute"}

SGravenhage ==
    <<"'", "s", "-", "G", "r", "a", "v", "e", "n", "h", "a", "g", "e">>

NameInputs == StringsUpTo(NameChars, MaxNameLen) \cup {SGravenhage}

\* The names that differ from s only in carrying the base letter where s has
\* the accented one.
Unaccent(c) ==
    IF c = "e_acute" THEN "e" ELSE IF c = "E_acute" THEN "E" ELSE c

RECURSIVE AccentVariants(_)
AccentVariants(s) ==
    IF s = <<>> THEN {<<>>}
    ELSE {<<c>> \o t : c \in {Head(s), Unaccent(Head(s))},
                       t \in AccentVariants(Tail(s))}

(***************************************************************************)
(* address.py: the two-line text format.                                   *)
(***************************************************************************)
\* [A-Za-z] of the street-line pattern: ASCII letters only.
IsAsciiLetter(c) == c \in Range(LowerLetters) \cup Range(UpperLetters)

DigitValue(c) ==
    CASE c = "0" -> 0 [] c = "1" -> 1 [] c = "2" -> 2 [] c = "3" -> 3
      [] c = "4" -> 4 [] c = "5" -> 5 [] c = "6" -> 6 [] c = "7" -> 7
      [] c = "8" -> 8 [] c = "9" -> 9

\* int() of a run of decimal digits.
RECURSIVE DigitsToInt(_)
DigitsToInt(s) ==
    IF s = <<>> THEN 0
    ELSE 10 * DigitsToInt(SubSeq(s, 1, Len(s) - 1)) + DigitValue(s[Len(s)])

\* str(n) for n >= 0.
DigitChar(d) == CHOOSE c \in DigitChars : DigitValue(c) = d

RECURSIVE IntToDigits(_)
IntToDigits(n) ==
    IF n < 10 THEN <<DigitChar(n)>>
    ELSE IntToDigits(n \div 10) \o <<DigitChar(n % 10)>>

\* The text after group 1 of r'^(.+?)\s+(\d+)([A-Za-z]*?)$': whitespace up to
\* j, digits up to k, ASCII letters to the end.
TailSplits(t) ==
    {jk \in (1..Len(t)) \X (1..Len(t)) :
        /\ jk[1] < jk[2]
        /\ \A x \in 1..jk[1] : IsSpace(t[x])
        /\ \A x \in (jk[1] + 1)..jk[2] : IsDigit(t[x])
        /\ \A x \in (jk[2] + 1)..Len(t) : IsAsciiLetter(t[x])}

\* The lengths group 1 can take; the lazy quantifier takes the shortest.
StreetSplits(line1) ==
    {i \in 1..Len(line1) : TailSplits(SubSeq(line1, i + 1, Len(line1))) # {}}

\* re.match on the street line: None, or the three groups.
StreetMatch(line1) ==
    LET splits == StreetSplits(line1) IN
    IF splits = {} THEN None
    ELSE LET i == CHOOSE x \in splits : \A y \in splits : x <= y
             t == SubSeq(line1, i + 1, Len(line1))
             jk == CHOOSE x \in TailSplits(t) : TRUE
         IN [g1 |-> SubSeq(line1, 1, i),
             g2 |-> SubSeq(t, jk[1] + 1, jk[2]),
             g3 |-> SubSeq(t, jk[2] + 1, Len(t))]

\* re.sub(r'\s{2,}', '  ', s): a run of two or more whitespace characters
\* becomes two spaces; a single one is kept as it is.
RECURSIVE SubRuns(_)
SubRuns(s) ==
    IF s = <<>> THEN <<>>
    ELSE IF Len(s) >= 2 /\ IsSpace(s[1]) /\ IsSpace(s[2])
         THEN <<" ", " ">> \o SubRuns(LStrip(s))
         ELSE <<Head(s)>> \o SubRuns(Tail(s))

\* str.split('  ')
RECURSIVE SplitDouble(_)
SplitDouble(s) ==
    LET hits == {i \in 1..(Len(s) - 1) : s[i] = " " /\ s[i + 1] = " "} IN
    IF hits = {} THEN <<s>>
    ELSE LET i == CHOOSE x \in hits : \A y \in hits : x <= y
         IN <<SubSeq(s, 1, i - 1)>> \o SplitDouble(SubSeq(s, i + 2, Len(s)))

\* str.split(): the maximal runs of non-whitespace.
RECURSIVE SplitWs(_)
SplitWs(s) ==
    LET t == LStrip(s)
        ends == {i \in 1..Len(t) : i = Len(t) \/ IsSpace(t[i + 1])}
    IN IF t = <<>> THEN <<>>
       ELSE LET i == CHOOSE x \in ends : \A y \in ends : x <= y
            IN <<SubSeq(t, 1, i)>> \o SplitWs(SubSeq(t, i + 1, Len(t)))

\* ' '.join(parts)
RECURSIVE JoinSpace(_)
JoinSpace(parts) ==
    IF parts = <<>> THEN <<>>
    ELSE IF Len(parts) = 1 THEN parts[1]
    ELSE parts[1] \o <<" ">> \o JoinSpace(Tail(parts))

ValueError == Raised("ValueError")

\* The city line of Address.from_lines: ValueError, or postcode and city.
CityLine(line2) ==
    LET l2 == SubRuns(line2)
        parts == SplitDouble(l2)
        toks == SplitWs(l2)
    IN IF Len(parts) >= 2
       THEN [postcode |-> Strip(parts[1]), city |-> Strip(parts[2])]
       ELSE IF Len(toks) >= 3
       THEN [postcode |-> toks[1] \o <<" ">> \o toks[2],
             city |-> JoinSpace(SubSeq(toks, 3, Len(toks)))]
       ELSE ValueError

\* Address.from_lines: ValueError, or the Address.
FromLines(address_lines) ==
    IF Len(address_lines) # 2 THEN ValueError
    ELSE LET line1 == Strip(address_lines[1])
             line2 == Strip(address_lines[2])
             m == StreetMatch(line1)
             c == CityLine(line2)
         IN IF m = None THEN ValueError
            ELSE IF c = ValueError THEN ValueError
            ELSE NewAddress(Strip(m.g1), DigitsToInt(m.g2), Upper(m.g3),
                            c.postcode, c.city)

\* to_lines with a single space between the postcode and the city.
ToLinesSingleSpace(a) ==
    <<Strip(a.street_name \o <<" ">> \o IntToDigits(a.house_number)
            \o a.house_number_extension),
      a.postcode \o <<" ">> \o a.city>>

\* Address.to_lines
ToLines(a) ==
    <<Strip(a.street_name \o <<" ">> \o IntToDigits(a.house_number)
            \o a.house_number_extension),
      a.postcode \o <<" ", " ">> \o a.city>>

\* DutchAddressHandler.parse_address
ParseAddress(address_lines) ==
    LET a == FromLines(address_lines) IN
    IF a = ValueError THEN None ELSE a

(***************************************************************************)
(* data_loader.py: dict and defaultdict, in insertion order.               *)
(***************************************************************************)
EmptyDict == <<>>
DictKeys(d) == {d[i].k : i \in DOMAIN d}
DictHas(d, key) == key \in DictKeys(d)
\* dict.get(key, default): never adds the key, also on a defaultdict.
DictGet(d, key, default) ==
    IF DictHas(d, key) THEN d[CHOOSE i \in DOMAIN d : d[i].k = key].v
    ELSE default
\* d[key] = value: a known key keeps its place.
DictSet(d, key, value) ==
    IF DictHas(d, key)
    THEN [i \in DOMAIN d |-> IF d[i].k = key THEN [k |-> key, v |-> value]
                             ELSE d[i]]
    ELSE Append(d, [k |-> key, v |-> value])

(***************************************************************************)
(* data_loader.py: parsing the lines of the reference files.               *)
(***************************************************************************)
\* int(s) of a str: surrounding whitespace and one sign allowed, then decimal
\* digits only. (NoInt stands for the ValueError.)
NoInt == [ok |-> FALSE]
ParseInt(s) ==
    LET t == Strip(s)
        signed == t # <<>> /\ Head(t) \in {"-", "+"}
        body == IF signed THEN Tail(t) ELSE t
    IN IF ~AllDigits(body) THEN NoInt
       ELSE [ok |-> TRUE,
             value |-> IF signed /\ Head(t) = "-" THEN 0 - DigitsToInt(body)
                       ELSE DigitsToInt(body)]

Contains(s, c) == c \in Range(s)
FirstIndex(s, c) ==
    CHOOSE i \in DOMAIN s : s[i] = c /\ \A j \in 1..(i - 1) : s[j] # c

\* s.split(c, 1) of a str that holds c.
SplitFirst(s, c) ==
    <<SubSeq(s, 1, FirstIndex(s, c) - 1),
      SubSeq(s, FirstIndex(s, c) + 1, Len(s))>>

\* s.split(c)
RECURSIVE SplitAll(_, _)
SplitAll(s, c) ==
    IF ~Contains(s, c) THEN <<s>>
    ELSE <<SplitFirst(s, c)[1]>> \o SplitAll(SplitFirst(s, c)[2], c)

\* s.split(None, 1): the first word and the rest, or fewer parts.
SplitWsOnce(s) ==
    LET t == LStrip(s)
        toks == SplitWs(t)
    IN IF Len(toks) <= 1 THEN toks
       ELSE <<toks[1]>> \o
            <<LStrip(SubSeq(t, Len(toks[1]) + 1, Len(t)))>>

\* The id and name texts of a cities line (None when the line has neither
\* separator).
WplFields(line) ==
    LET r == [i \in DOMAIN line |-> IF line[i] = "|" THEN "~" ELSE line[i]]
    IN IF Contains(line, "~") THEN SplitFirst(line, "~")
       ELSE IF Contains(r, "~") THEN SplitFirst(r, "~")
       ELSE <<>>

\* What one pass of a loading loop does with its line.
Skip == [act |-> "skip"]
Store(key, value) == [act |-> "store", k |-> key, v |-> value]
Raise(exc) == [act |-> "raise", exc |-> exc]

\* One pass of the loop of _load_wpl_data without its try/except: the
\* ValueError of int() leaves the loop.
WplLineUncaught(raw) ==
    LET line == Strip(raw)
        f == WplFields(line)
    IN IF line = <<>> \/ f = <<>> THEN Skip
       ELSE IF ~ParseInt(f[1]).ok THEN Raise("ValueError")
       ELSE Store(ParseInt(f[1]).value, Strip(f[2]))

\* One pass of the loop of _load_wpl_data.
WplLine(raw) ==
    LET line == Strip(raw)
        f == WplFields(line)
    IN IF line = <<>> \/ f = <<>> THEN Skip
       ELSE IF ~ParseInt(f[1]).ok THEN Skip
       ELSE Store(ParseInt(f[1]).value, Strip(f[2]))

\* The id and name texts of a streets line.
StrFields(line) ==
    IF Contains(line, "~") THEN SplitFirst(line, "~")
    ELSE IF Contains(line, "|") THEN SplitFirst(line, "|")
    ELSE IF Len(SplitWsOnce(line)) = 2 THEN SplitWsOnce(line)
    ELSE <<>>

\* One pass of the loop of _load_str_data.
StrLine(raw) ==
    LET line == Strip(raw)
        f == StrFields(line)
    IN IF line = <<>> \/ f = <<>> THEN Skip
       ELSE IF ~ParseInt(f[1]).ok THEN Skip
       ELSE Store(ParseInt(f[1]).value, Strip(f[2]))

\* One pass of the loop of _load_hnr_data: the entry it appends, if any.
HnrLine(raw) ==
    LET line == Strip(raw)
        parts == SplitAll(line, "|")
        pc6 == Strip(parts[1])
        f == IF Strip(parts[2]) # <<>> THEN ParseInt(parts[2])
             ELSE [ok |-> TRUE, value |-> 0]
        t == IF Strip(parts[3]) # <<>> THEN ParseInt(parts[3]) ELSE f
        sid == IF Strip(parts[4]) # <<>> THEN ParseInt(parts[4]) ELSE None
        cid == IF Strip(parts[5]) # <<>> THEN ParseInt(parts[5]) ELSE None
    IN IF line = <<>> \/ Len(parts) < 5 THEN Skip
       ELSE IF Len(pc6) # 6 THEN Skip
       ELSE IF ~f.ok THEN Skip
       ELSE IF ~t.ok THEN Skip
       ELSE IF sid # None /\ ~sid.ok THEN Skip
       ELSE IF cid # None /\ ~cid.ok THEN Skip
       ELSE IF sid = None \/ cid = None THEN Skip
       ELSE Store(pc6, [pc6 |-> pc6, hnr_from |-> f.value, hnr_to |-> t.value,
                        street_id |-> sid.value, city_id |-> cid.value])

\* The outcome of a loading loop: the exception that left it, if any, and
\* the index as the passes run so far have made it.
Loaded(m) == [exc |-> "none", index |-> m]
Failed(exc, m) == [exc |-> exc, index |-> m]

\* _load_wpl_data: the lines of PCS_WPL.dat, in order, applied to _city_map.
RECURSIVE LoadWplData(_, _)
LoadWplData(m, lines) ==
    IF lines = <<>> THEN Loaded(m)
    ELSE LET o == WplLine(Head(lines)) IN
         IF o.act = "raise" THEN Failed(o.exc, m)
         ELSE IF o.act = "skip" THEN LoadWplData(m, Tail(lines))
         ELSE LoadWplData(DictSet(m, o.k, o.v), Tail(lines))

\* _load_str_data
RECURSIVE LoadStrData(_, _)
LoadStrData(m, lines) ==
    IF lines = <<>> THEN Loaded(m)
    ELSE LET o == StrLine(Head(lines)) IN
         IF o.act = "raise" THEN Failed(o.exc, m)
         ELSE IF o.act = "skip" THEN LoadStrData(m, Tail(lines))
         ELSE LoadStrData(DictSet(m, o.k, o.v), Tail(lines))

\* The three indexes _load_hnr_data fills.
HnrIndexes(pc6, pc4, street) ==
    [pc6_index |-> pc6, pc4_index |-> pc4, street_id_to_pc6 |-> street]

\* self._pc6_index[pc6].append(entry); self._pc4_index[pc6[:4]].add(city_id);
\* self._street_id_to_pc6[street_id].add(pc6)
AddEntry(x, e) ==
    HnrIndexes(
        DictSet(x.pc6_index, e.pc6,
                Append(DictGet(x.pc6_index, e.pc6, <<>>), e)),
        DictSet(x.pc4_index, SubSeq(e.pc6, 1, 4),
                DictGet(x.pc4_index, SubSeq(e.pc6, 1, 4), {}) \cup {e.city_id}),
        DictSet(x.street_id_to_pc6, e.street_id,
                DictGet(x.street_id_to_pc6, e.street_id, {}) \cup {e.pc6}))

\* _load_hnr_data
RECURSIVE LoadHnrData(_, _)
LoadHnrData(x, lines) ==
    IF lines = <<>> THEN Loaded(x)
    ELSE LET o == HnrLine(Head(lines)) IN
         IF o.act = "raise" THEN Failed(o.exc, x)
         ELSE IF o.act = "skip" THEN LoadHnrData(x, Tail(lines))
         ELSE LoadHnrData(AddEntry(x, o.v), Tail(lines))

\* One loop of _build_reverse_indexes: each id of the map appended to the
\* list kept under its normalized name.
RECURSIVE AddNames(_, _)
AddNames(idx, m) ==
    IF m = <<>> THEN idx
    ELSE AddNames(DictSet(idx, NormalizeName(Head(m).v),
                          Append(DictGet(idx, NormalizeName(Head(m).v), <<>>),
                                 Head(m).k)),
                  Tail(m))

\* The lru_cache of get_addresses_by_pc6 once _load_hnr_data has run again on
\* the same DataLoader. The cache holds references: a list it took from
\* _pc6_index is the list the loader appends to, and the empty list made
\* for a postcode the index did not hold belongs to the cache alone. No
\* list of the index is empty, so an empty cached value is of that kind.
RECURSIVE Pc6CacheAfterLoad(_, _)
Pc6CacheAfterLoad(cache, index) ==
    IF cache = <<>> THEN <<>>
    ELSE <<[k |-> Head(cache).k,
            v |-> IF Head(cache).v = <<>> THEN <<>>
                  ELSE DictGet(index, Upper(Head(cache).k), <<>>)]>>
         \o Pc6CacheAfterLoad(Tail(cache), index)

\* The lru_cache of get_cities_by_pc4, whose sets are those of _pc4_index.
RECURSIVE Pc4CacheAfterLoad(_, _)
Pc4CacheAfterLoad(cache, index) ==
    IF cache = <<>> THEN <<>>
    ELSE <<[k |-> Head(cache).k,
            v |-> IF Head(cache).v = {} THEN {}
                  ELSE DictGet(index, Head(cache).k, {})]>>
         \o Pc4CacheAfterLoad(Tail(cache), index)

(***************************************************************************)
(* The normalizer on its own: _normalize_name applied to a name, then to   *)
(* its own result, and the comparison of two normalized names that         *)
(* correct_city, correct_street and the name lookups make.                 *)
(***************************************************************************)
NotCompared == [done |-> FALSE]
\* A reference file that is not there, and one holding the given lines.
Missing == [exists |-> FALSE]
File(lines) == [exists |-> TRUE, lines |-> lines]

IdleText ==
    /\ nameArg = <<>> /\ nameHist = <<>>
    /\ cmpOther = <<>> /\ cmpRes = NotCompared
IdleAddr == pcArg = <<>> /\ addr = None
IdleFiles == wplFile = Missing /\ strFile = Missing /\ hnrFile = Missing
IdleLoader ==
    /\ loadPc = "none"
    /\ city_map = EmptyDict /\ street_map = EmptyDict
    /\ pc6_index = EmptyDict /\ pc4_index = EmptyDict
    /\ street_id_to_pc6 = EmptyDict
    /\ city_name_to_id = EmptyDict /\ street_name_to_id = EmptyDict
    /\ pc6_cache = EmptyDict /\ pc4_cache = EmptyDict
    /\ loads = 0
IdleApi == call = [op |-> "none"] /\ result = None

InitName ==
    /\ nameArg \in NameInputs
    /\ nameHist = <<>>
    /\ cmpOther = <<>>
    /\ cmpRes = NotCompared
    /\ IdleAddr /\ IdleFiles /\ IdleLoader /\ IdleApi

\* DataLoader._normalize_name(name), first on the argument and then on what
\* it returned.
CallNormalizeName ==
    /\ Len(nameHist) < MaxCalls
    /\ nameHist' = Append(nameHist,
                          NormalizeName(IF nameHist = <<>> THEN nameArg
                                        ELSE nameHist[Len(nameHist)]))
    /\ UNCHANGED <<nameArg, cmpOther, cmpRes, addrVars, fileVars, loadVars,
                   apiVars, cacheVars, loads>>

\* normalized_input == normalized_city (corrector.py) for a reference name
\* that differs from the argument only in its accents.
CompareNames ==
    /\ ~cmpRes.done
    /\ \E other \in AccentVariants(nameArg) :
         /\ cmpOther' = other
         /\ cmpRes' = [done |-> TRUE,
                       equal |-> NormalizeName(nameArg) = NormalizeName(other)]
    /\ UNCHANGED <<nameArg, nameHist, addrVars, fileVars, loadVars, apiVars, cacheVars, loads>>

NextName == CallNormalizeName \/ CompareNames

SpecName == InitName /\ [][NextName]_vars

(***************************************************************************)
(* Address construction.                                                   *)
(***************************************************************************)
PcChars == {"1", "a", " ", "-"}
ExtInputs == {<<>>, <<"e">>}

InitAddr ==
    /\ pcArg \in StringsUpTo(PcChars, MaxPcLen)
    /\ addr = None
    /\ IdleText /\ IdleFiles /\ IdleLoader /\ IdleApi

\* Address(street_name, house_number, house_number_extension, postcode, city)
ConstructAddress ==
    /\ addr = None
    /\ \E ext \in ExtInputs :
         addr' = NewAddress(<<"S">>, 1, ext, pcArg, <<"C">>)
    /\ UNCHANGED <<pcArg, nameVars, fileVars, loadVars, apiVars, cacheVars, loads>>

NextAddr == ConstructAddress

SpecAddr == InitAddr /\ [][NextAddr]_vars

(***************************************************************************)
(* DataLoader(data_dir): the constructor and the four steps of             *)
(* _load_all_data, each reading its file as open() finds it.               *)
(***************************************************************************)
RefIdTexts == {<<"1">>, <<"2">>, <<"x">>}
RefSeparators == {<<"~">>, <<"|">>, <<" ">>}
RefNameTexts == {<<"A">>, <<>>}
\* Lines of PCS_WPL.dat and PCS_STR.dat: an id text, a separator, a name text.
RefLines ==
    {id \o sep \o name :
        id \in RefIdTexts, sep \in RefSeparators, name \in RefNameTexts}

HnrPc6Texts == {<<"1", "2", "3", "4", "A", "B">>, <<"1", "2", "A", "B">>}
HnrFromTexts == {<<>>, <<"5">>, <<"x">>}
HnrToTexts == {<<>>, <<"3">>, <<"7">>}
HnrStreetTexts == {<<"1">>, <<>>}
HnrCityTexts == {<<"1">>}
\* Lines of PCS_HNR.dat: five pipe-delimited fields, or only four.
HnrLines ==
    {pc \o <<"|">> \o f \o <<"|">> \o t \o <<"|">> \o sid \o <<"|">> \o cid :
        pc \in HnrPc6Texts, f \in HnrFromTexts, t \in HnrToTexts,
        sid \in HnrStreetTexts, cid \in HnrCityTexts}
    \cup {<<"1", "2", "3", "4", "A", "B", "|", "5", "|", "7", "|", "1">>}

FilesOf(lines) == {File(f) : f \in StringsUpTo(lines, MaxLines)}

GoodWpl == File(<< <<"1", "~", "A">> >>)
GoodStr == File(<< <<"1", "~", "A">> >>)
GoodHnr ==
    File(<< <<"1", "2", "3", "4", "A", "B", "|", "5", "|", "7", "|", "1",
              "|", "1">> >>)

\* Either one file takes every content up to the bound beside two good ones,
\* or each of the three is there or not.
InitFiles ==
    \/ wplFile \in FilesOf(RefLines) /\ strFile = GoodStr /\ hnrFile = GoodHnr
    \/ wplFile = GoodWpl /\ strFile \in FilesOf(RefLines) /\ hnrFile = GoodHnr
    \/ wplFile = GoodWpl /\ strFile = GoodStr /\ hnrFile \in FilesOf(HnrLines)
    \/ /\ wplFile \in {Missing, GoodWpl}
       /\ strFile \in {Missing, GoodStr}
       /\ hnrFile \in {Missing, GoodHnr}

InitLoad ==
    /\ InitFiles
    /\ IdleLoader
    /\ IdleText /\ IdleAddr /\ IdleApi

\* DataLoader.__init__ up to the call of _load_all_data: empty indexes.
NewDataLoader ==
    /\ loadPc = "none"
    /\ loadPc' = "wpl"
    /\ city_map' = EmptyDict /\ street_map' = EmptyDict
    /\ pc6_index' = EmptyDict /\ pc4_index' = EmptyDict
    /\ street_id_to_pc6' = EmptyDict
    /\ city_name_to_id' = EmptyDict /\ street_name_to_id' = EmptyDict
    /\ loads' = loads + 1
    /\ UNCHANGED <<nameVars, addrVars, fileVars, apiVars, cacheVars>>

\* _load_wpl_data: open() raises when the file is not there.
LoadWpl ==
    /\ loadPc = "wpl"
    /\ IF ~wplFile.exists
       THEN loadPc' = "FileNotFoundError" /\ UNCHANGED city_map
       ELSE LET r == LoadWplData(city_map, wplFile.lines) IN
            /\ loadPc' = IF r.exc = "none" THEN "str" ELSE r.exc
            /\ city_map' = r.index
    /\ UNCHANGED <<street_map, pc6_index, pc4_index, street_id_to_pc6,
                   city_name_to_id, street_name_to_id>>
    /\ UNCHANGED <<nameVars, addrVars, fileVars, apiVars, cacheVars, loads>>

\* _load_str_data
LoadStr ==
    /\ loadPc = "str"
    /\ IF ~strFile.exists
       THEN loadPc' = "FileNotFoundError" /\ UNCHANGED street_map
       ELSE LET r == LoadStrData(street_map, strFile.lines) IN
            /\ loadPc' = IF r.exc = "none" THEN "hnr" ELSE r.exc
            /\ street_map' = r.index
    /\ UNCHANGED <<city_map, pc6_index, pc4_index, street_id_to_pc6,
                   city_name_to_id, street_name_to_id>>
    /\ UNCHANGED <<nameVars, addrVars, fileVars, apiVars, cacheVars, loads>>

\* _load_hnr_data
LoadHnr ==
    /\ loadPc = "hnr"
    /\ IF ~hnrFile.exists
       THEN /\ loadPc' = "FileNotFoundError"
            /\ UNCHANGED <<pc6_index, pc4_index, street_id_to_pc6>>
       ELSE LET r == LoadHnrData(HnrIndexes(pc6_index, pc4_index,
                                             street_id_to_pc6),
                                  hnrFile.lines) IN
            /\ loadPc' = IF r.exc = "none" THEN "reverse" ELSE r.exc
            /\ pc6_index' = r.index.pc6_index
            /\ pc4_index' = r.index.pc4_index
            /\ street_id_to_pc6' = r.index.street_id_to_pc6
    /\ pc6_cache' = Pc6CacheAfterLoad(pc6_cache, pc6_index')
    /\ pc4_cache' = Pc4CacheAfterLoad(pc4_cache, pc4_index')
    /\ UNCHANGED <<city_map, street_map, city_name_to_id, street_name_to_id>>
    /\ UNCHANGED <<nameVars, addrVars, fileVars, apiVars, loads>>

\* _build_reverse_indexes
BuildReverseIndexes ==
    /\ loadPc = "reverse"
    /\ loadPc' = "ready"
    /\ city_name_to_id' = AddNames(city_name_to_id, city_map)
    /\ street_name_to_id' = AddNames(street_name_to_id, street_map)
    /\ UNCHANGED <<city_map, street_map, pc6_index, pc4_index,
                   street_id_to_pc6>>
    /\ UNCHANGED <<nameVars, addrVars, fileVars, apiVars, cacheVars, loads>>

NextLoad ==
    NewDataLoader \/ LoadWpl \/ LoadStr \/ LoadHnr \/ BuildReverseIndexes

SpecLoad == InitLoad /\ [][NextLoad]_vars

(***************************************************************************)
(* The public functions of validator.py, each building a                   *)
(* DutchAddressHandler of its own over the default data directory.         *)
(***************************************************************************)
Returned(value) == [value |-> value]

\* The names validator.py binds: its imports and its two functions.
ValidatorModuleNames ==
    {"re", "List", "Address", "DutchAddressHandler", "validate",
     "validate_lines"}

\* DataLoader.__init__ up to the call of _load_all_data: empty indexes and
\* no exception yet.
EmptyLoader ==
    [exc |-> "none", city_map |-> EmptyDict, street_map |-> EmptyDict,
     pc6_index |-> EmptyDict, pc4_index |-> EmptyDict,
     street_id_to_pc6 |-> EmptyDict, city_name_to_id |-> EmptyDict,
     street_name_to_id |-> EmptyDict]

StoreCityMap(L, r) == [L EXCEPT !.exc = r.exc, !.city_map = r.index]

StoreStreetMap(L, r) == [L EXCEPT !.exc = r.exc, !.street_map = r.index]

StoreHnrIndexes(L, r) ==
    [L EXCEPT !.exc = r.exc,
              !.pc6_index = r.index.pc6_index,
              !.pc4_index = r.index.pc4_index,
              !.street_id_to_pc6 = r.index.street_id_to_pc6]

\* _load_wpl_data on a loader L; an exception raised earlier ends the build.
LoadWplFile(L, wpl) ==
    IF L.exc # "none" THEN L
    ELSE IF ~wpl.exists THEN [L EXCEPT !.exc = "FileNotFoundError"]
    ELSE StoreCityMap(L, LoadWplData(L.city_map, wpl.lines))

\* _load_str_data
LoadStrFile(L, str) ==
    IF L.exc # "none" THEN L
    ELSE IF ~str.exists THEN [L EXCEPT !.exc = "FileNotFoundError"]
    ELSE StoreStreetMap(L, LoadStrData(L.street_map, str.lines))

\* _load_hnr_data
LoadHnrFile(L, hnr) ==
    IF L.exc # "none" THEN L
    ELSE IF ~hnr.exists THEN [L EXCEPT !.exc = "FileNotFoundError"]
    ELSE StoreHnrIndexes(L,
             LoadHnrData(HnrIndexes(L.pc6_index, L.pc4_index,
                                    L.street_id_to_pc6), hnr.lines))

\* _build_reverse_indexes
BuildReverse(L) ==
    IF L.exc # "none" THEN L
    ELSE [L EXCEPT !.city_name_to_id = AddNames(L.city_name_to_id, L.city_map),
                   !.street_name_to_id =
                       AddNames(L.street_name_to_id, L.street_map)]

\* _load_all_data
LoadAllData(L, wpl, str, hnr) ==
    BuildReverse(LoadHnrFile(LoadStrFile(LoadWplFile(L, wpl), str), hnr))

\* The exception a build ended with, or the loader it made.
LoaderOrRaised(L) == IF L.exc # "none" THEN Raised(L.exc) ELSE L

\* DataLoader(data_dir)
BuildIndex(wpl, str, hnr) ==
    LoaderOrRaised(LoadAllData(EmptyLoader, wpl, str, hnr))

\* DataLoader.get_addresses_by_pc6
GetAddressesByPc6(idx, pc6) == DictGet(idx.pc6_index, Upper(pc6), <<>>)

\* AddressValidator.validate, which validator.py does not define: the
\* validation protocol as the specification gives it.
AddressValidatorValidate(idx, a) ==
    LET entries == GetAddressesByPc6(idx, Pc6Of(a)) IN
    \E i \in DOMAIN entries :
        LET e == entries[i] IN
        /\ DictHas(idx.street_map, e.street_id)
        /\ NormalizeName(DictGet(idx.street_map, e.street_id, <<>>))
               = NormalizeName(a.street_name)
        /\ e.hnr_from <= a.house_number /\ a.house_number <= e.hnr_to
        /\ DictHas(idx.city_map, e.city_id)
        /\ NormalizeName(DictGet(idx.city_map, e.city_id, <<>>))
               = NormalizeName(a.city)

\* self.data_loader = DataLoader(data_dir), unless the constructor raised.
HandlerOrRaised(data_loader) ==
    IF IsRaised(data_loader) THEN data_loader
    ELSE [data_loader |-> data_loader]

\* DutchAddressHandler.__init__: the three imports, then the DataLoader.
NewHandler(wpl, str, hnr) ==
    IF "AddressValidator" \notin ValidatorModuleNames
    THEN Raised("ImportError")
    ELSE HandlerOrRaised(BuildIndex(wpl, str, hnr))

\* How many DataLoaders DutchAddressHandler() builds, each loading the three
\* files once: none when an import fails before the DataLoader is made.
LoadsOfNewHandler ==
    IF "AddressValidator" \notin ValidatorModuleNames THEN 0 ELSE 1

\* DutchAddressHandler.validate
HandlerValidate(h, street_name, house_number, house_number_extension, postcode, city) ==
    AddressValidatorValidate(h.data_loader,
        NewAddress(street_name, house_number, house_number_extension,
                   postcode, city))

\* "if not address: return False", else the validator's verdict.
ValidateParsed(h, address) ==
    IF address = None THEN FALSE
    ELSE AddressValidatorValidate(h.data_loader, address)

\* DutchAddressHandler.validate_lines
HandlerValidateLines(h, address_lines) ==
    ValidateParsed(h, ParseAddress(address_lines))

\* validator.validate
PublicValidate(wpl, str, hnr, street_name, house_number, house_number_extension, postcode, city) ==
    LET handler == NewHandler(wpl, str, hnr) IN
    IF IsRaised(handler) THEN handler
    ELSE Returned(HandlerValidate(handler, street_name, house_number,
                                  house_number_extension, postcode, city))

\* validator.validate_lines
PublicValidateLines(wpl, str, hnr, address_lines) ==
    LET handler == NewHandler(wpl, str, hnr) IN
    IF IsRaised(handler) THEN handler
    ELSE Returned(HandlerValidateLines(handler, address_lines))

\* The reference data of the calls and the arguments they are made with.
ApiWpl == File(<< <<"1", "~", "A", "b">> >>)
ApiStr == File(<< <<"7", "~", "C", "d">> >>)
ApiHnr == File(<< <<"1", "2", "3", "4", "A", "B", "|", "3", "|", "5", "|", "7", "|", "1">> >>)

StreetArgs == {<<"C", "d">>, <<"c", "d">>, <<"X", "x">>}
NumberArgs == {3, 6}
PostcodeArgs == {<<"1", "2", "3", "4", "A", "B">>, <<"1", "2", "3", "4", " ", "a", "b">>, <<"9", "9", "9", "9", "Z", "Z">>}
CityArgs == {<<"A", "b">>, <<"A", "B">>, <<"X", "x">>}
Line1Args == {<<"C", "d", " ", "3">>, <<"C", "d", " ", "3", "e">>, <<"C", "d">>}
Line2Args == {<<"1", "2", "3", "4", " ", "A", "B", " ", " ", "A", "b">>, <<"1", "2", "3", "4", "A", "B", " ", "A", "b">>, <<"A", "b">>}
LinesArgs ==
    {<<l1, l2>> : l1 \in Line1Args, l2 \in Line2Args}
    \cup {<<l1>> : l1 \in Line1Args}
    \cup {<<l1, l2, l2>> : l1 \in Line1Args, l2 \in Line2Args}

InitApi ==
    /\ wplFile \in {Missing, ApiWpl}
    /\ strFile \in {Missing, ApiStr}
    /\ hnrFile \in {Missing, ApiHnr}
    /\ call = [op |-> "none"]
    /\ result = None
    /\ IdleText /\ IdleAddr /\ IdleLoader

\* validate(street_name, house_number, house_number_extension, postcode, city)
Validate ==
    /\ \E street \in StreetArgs, number \in NumberArgs, ext \in ExtInputs,
          postcode \in PostcodeArgs, city \in CityArgs :
         /\ call' = [op |-> "validate", street_name |-> street,
                     house_number |-> number, house_number_extension |-> ext,
                     postcode |-> postcode, city |-> city]
         /\ result' = PublicValidate(wplFile, strFile, hnrFile, street,
                                     number, ext, postcode, city)
    /\ loads < MaxLoads
    /\ loads' = loads + LoadsOfNewHandler
    /\ UNCHANGED <<nameVars, addrVars, fileVars, loadVars, cacheVars>>

\* validate_lines(address_lines)
ValidateLines ==
    /\ \E lines \in LinesArgs :
         /\ call' = [op |-> "validate_lines", address_lines |-> lines]
         /\ result' = PublicValidateLines(wplFile, strFile, hnrFile, lines)
    /\ loads < MaxLoads
    /\ loads' = loads + LoadsOfNewHandler
    /\ UNCHANGED <<nameVars, addrVars, fileVars, loadVars, cacheVars>>

NextApi == Validate \/ ValidateLines

SpecApi == InitApi /\ [][NextApi]_vars

(***************************************************************************)
(* data_loader.py: the query methods, on a built DataLoader d (its seven   *)
(* indexes and its two lru_caches). An optional str argument that is left  *)
(* out (None) is the empty str here: the code tests it by truth value      *)
(* only. Fewer keys than an lru_cache's maxsize are ever looked up, so no  *)
(* entry is evicted.                                                       *)
(***************************************************************************)
\* A call of an lru_cache'd method: the value kept under the key when there
\* is one, else the value computed now.
CacheGet(cache, key, computed) ==
    IF DictHas(cache, key) THEN DictGet(cache, key, computed) ELSE computed

\* The cache after that call.
CachePut(cache, key, computed) ==
    IF DictHas(cache, key) THEN cache ELSE DictSet(cache, key, computed)

\* DataLoader.get_addresses_by_pc6 through its lru_cache
CachedAddressesByPc6(d, pc6) ==
    CacheGet(d.pc6_cache, pc6, GetAddressesByPc6(d, pc6))

\* DataLoader.get_cities_by_pc4
GetCitiesByPc4(d, pc4) == DictGet(d.pc4_index, pc4, {})

\* DataLoader.get_cities_by_pc4 through its lru_cache
CachedCitiesByPc4(d, pc4) ==
    CacheGet(d.pc4_cache, pc4, GetCitiesByPc4(d, pc4))

\* DataLoader.get_city_by_id: None, or the name.
GetCityById(d, city_id) ==
    IF DictHas(d.city_map, city_id)
    THEN Returned(DictGet(d.city_map, city_id, <<>>)) ELSE None

\* DataLoader.get_street_by_id
GetStreetById(d, street_id) ==
    IF DictHas(d.street_map, street_id)
    THEN Returned(DictGet(d.street_map, street_id, <<>>)) ELSE None

\* The truth value of an Optional[str]: None and '' are false.
Truthy(opt) == opt # None /\ opt.value # <<>>

\* DataLoader.find_city_ids_by_name
FindCityIdsByName(d, city_name, pc4) ==
    LET city_ids == DictGet(d.city_name_to_id, NormalizeName(city_name), <<>>)
    IN IF pc4 # <<>>
       THEN SelectSeq(city_ids, LAMBDA cid : cid \in CachedCitiesByPc4(d, pc4))
       ELSE city_ids

\* {e['street_id'] for e in entries if e.get('street_id')}: the id 0 is
\* false and left out.
StreetIdsIn(entries) ==
    {entries[i].street_id : i \in DOMAIN entries} \ {0}

\* DataLoader.find_street_ids_by_name
FindStreetIdsByName(d, street_name, pc6) ==
    LET street_ids ==
            DictGet(d.street_name_to_id, NormalizeName(street_name), <<>>)
    IN IF pc6 # <<>>
       THEN SelectSeq(street_ids,
                LAMBDA sid : sid \in StreetIdsIn(CachedAddressesByPc6(d, pc6)))
       ELSE street_ids

\* The loop of is_house_number_valid over the entries.
SomeEntryCovers(entries, street_id, house_number) ==
    \E i \in DOMAIN entries :
        /\ entries[i].street_id = street_id
        /\ entries[i].hnr_from <= house_number
        /\ house_number <= entries[i].hnr_to

\* DataLoader.is_house_number_valid
IsHouseNumberValid(d, street_id, pc6, house_number) ==
    SomeEntryCovers(CachedAddressesByPc6(d, pc6), street_id, house_number)

(***************************************************************************)
(* Order of str values: sorted() compares code point by code point.        *)
(***************************************************************************)
\* The characters of the model in code point order.
CodePointOrder ==
    <<"\t", " ", "'", "-",
      "0", "1", "2", "3", "4", "5", "6", "7", "8", "9">>
    \o UpperLetters \o <<"_">> \o LowerLetters
    \o <<"|", "~", "E_acute", "e_acute", "comb_acute">>

CharLess(c1, c2) == IndexIn(CodePointOrder, c1) < IndexIn(CodePointOrder, c2)

\* s < t of two str values
RECURSIVE StrLess(_, _)
StrLess(s, t) ==
    IF t = <<>> THEN FALSE
    ELSE IF s = <<>> THEN TRUE
    ELSE IF Head(s) = Head(t) THEN StrLess(Tail(s), Tail(t))
    ELSE CharLess(Head(s), Head(t))

\* sorted(results) of a set of str values
SortedStrs(S) ==
    [r \in 1..Cardinality(S) |->
        CHOOSE x \in S : Cardinality({y \in S : StrLess(y, x)}) = r - 1]

(***************************************************************************)
(* difflib.get_close_matches as corrector.py calls it: SequenceMatcher     *)
(* with no junk (the automatic junk heuristic needs 200 characters or      *)
(* more). Positions are offsets from 0, ranges half-open, as in difflib. A *)
(* ratio is kept as the fraction num/den it is computed from.              *)
(***************************************************************************)
Min(x, y) == IF x <= y THEN x ELSE y

\* The blocks a[i:i+k] == b[j:j+k] with k >= 1 inside the two ranges.
CommonBlocks(a, b, alo, ahi, blo, bhi) ==
    {m \in (alo..(ahi - 1)) \X (blo..(bhi - 1)) \X (1..Min(ahi - alo, bhi - blo)) :
        /\ m[1] + m[3] <= ahi /\ m[2] + m[3] <= bhi
        /\ \A t \in 0..(m[3] - 1) : a[m[1] + t + 1] = b[m[2] + t + 1]}

\* SequenceMatcher.find_longest_match: of the longest blocks the one that
\* starts earliest in a and, of those, earliest in b.
LongestOf(blocks) ==
    CHOOSE m \in blocks :
        \A o \in blocks :
            \/ o[3] < m[3]
            \/ o[3] = m[3] /\ m[1] < o[1]
            \/ o[3] = m[3] /\ m[1] = o[1] /\ m[2] <= o[2]

\* SequenceMatcher.get_matching_blocks, summed: the longest block, then the
\* same to its left and to its right.
RECURSIVE MatchedAround(_, _, _, _, _, _, _)
RECURSIVE Matched(_, _, _, _, _, _)
MatchedAround(a, b, alo, ahi, blo, bhi, m) ==
    m[3] + Matched(a, b, alo, m[1], blo, m[2])
         + Matched(a, b, m[1] + m[3], ahi, m[2] + m[3], bhi)

Matched(a, b, alo, ahi, blo, bhi) ==
    IF alo >= ahi \/ blo >= bhi THEN 0
    ELSE IF CommonBlocks(a, b, alo, ahi, blo, bhi) = {} THEN 0
    ELSE MatchedAround(a, b, alo, ahi, blo, bhi,
                       LongestOf(CommonBlocks(a, b, alo, ahi, blo, bhi)))

\* _calculate_ratio(matches, length): 2.0 * matches / length, 1.0 when both
\* sequences are empty.
CalculateRatio(matches, length) ==
    IF length = 0 THEN [num |-> 1, den |-> 1]
    ELSE [num |-> 2 * matches, den |-> length]

\* SequenceMatcher.ratio
Ratio(a, b) ==
    CalculateRatio(Matched(a, b, 0, Len(a), 0, Len(b)), Len(a) + Len(b))

\* SequenceMatcher.real_quick_ratio
RealQuickRatio(a, b) == CalculateRatio(Min(Len(a), Len(b)), Len(a) + Len(b))

Count(s, c) == Cardinality({i \in DOMAIN s : s[i] = c})

RECURSIVE SumOver(_, _, _)
SumOver(S, a, b) ==
    IF S = {} THEN 0
    ELSE LET c == CHOOSE x \in S : TRUE
         IN Min(Count(a, c), Count(b, c)) + SumOver(S \ {c}, a, b)

\* SequenceMatcher.quick_ratio: the characters the two have in common,
\* counted with their multiplicity.
QuickRatio(a, b) == CalculateRatio(SumOver(Range(a), a, b), Len(a) + Len(b))

RatioLess(r1, r2) == r1.num * r2.den < r2.num * r1.den

\* cutoff=0.6 of get_close_matches, as the fraction 6/10.
CutoffNum == 6
CutoffDen == 10
\* n=10 of get_close_matches
MaxCloseMatches == 10

AtLeastCutoff(r) == r.num * CutoffDen >= CutoffNum * r.den

\* The (score, x) pairs get_close_matches collects: every possibility, as
\* often as it is listed, whose three ratios reach the cutoff.
ScoredPossibilities(word, possibilities) ==
    SelectSeq([i \in DOMAIN possibilities |->
                  [score |-> Ratio(possibilities[i], word),
                   x |-> possibilities[i]]],
              LAMBDA p : /\ AtLeastCutoff(RealQuickRatio(p.x, word))
                         /\ AtLeastCutoff(QuickRatio(p.x, word))
                         /\ AtLeastCutoff(p.score))

\* (score, x) tuples compared as heapq.nlargest compares them.
ScoredLess(p, q) ==
    \/ RatioLess(p.score, q.score)
    \/ ~RatioLess(q.score, p.score) /\ StrLess(p.x, q.x)

\* heapq.nlargest(n, result): the n greatest, greatest first.
NLargest(n, scored) ==
    LET rank(i) ==
            Cardinality({j \in DOMAIN scored :
                \/ ScoredLess(scored[i], scored[j])
                \/ ~ScoredLess(scored[j], scored[i]) /\ j < i})
    IN [r \in 1..Min(n, Len(scored)) |->
           scored[CHOOSE i \in DOMAIN scored : rank(i) = r - 1].x]

\* difflib.get_close_matches(word, possibilities, n, 0.6)
GetCloseMatches(word, possibilities, n) ==
    NLargest(n, ScoredPossibilities(word, possibilities))

(***************************************************************************)
(* corrector.py: AddressCorrector over a built DataLoader d.               *)
(***************************************************************************)
\* pc4_filter of correct_city ('' when there is none)
Pc4Filter(postcode) ==
    LET clean_pc == Upper(RemoveSpaces(postcode)) IN
    IF postcode # <<>> /\ Len(clean_pc) >= 4
                       /\ AllDigits(SubSeq(clean_pc, 1, 4))
    THEN SubSeq(clean_pc, 1, 4) ELSE <<>>

\* pc6_filter of correct_street
Pc6Filter(postcode) ==
    LET clean_pc == Upper(RemoveSpaces(postcode)) IN
    IF postcode # <<>> /\ Len(clean_pc) = 6
                       /\ AllDigits(SubSeq(clean_pc, 1, 4))
                       /\ AllAlpha(SubSeq(clean_pc, 5, 6))
    THEN clean_pc ELSE <<>>

\* all_city_names / all_street_names: (name, normalized name) of every id of
\* the map, in the map's order, that the filter lets through.
AllNames(m, filtered, scope) ==
    LET kept == SelectSeq(m, LAMBDA e : ~filtered \/ e.k \in scope) IN
    [i \in DOMAIN kept |->
        [name |-> kept[i].v, norm |-> NormalizeName(kept[i].v)]]

Norms(all_names) == [i \in DOMAIN all_names |-> all_names[i].norm]

\* The original names whose normalized name is one of the given ones.
NamesOf(all_names, norms) ==
    {all_names[i].name : i \in {j \in DOMAIN all_names :
                                    all_names[j].norm \in norms}}

\* Strategy 2 returning the names in the order of their matches, without
\* the final sorted().
SuggestionsUnsorted(all_names, normalized_input) ==
    LET matches == GetCloseMatches(normalized_input, Norms(all_names),
                                   MaxCloseMatches)
    IN IF NamesOf(all_names, {normalized_input}) # {}
       THEN SortedStrs(NamesOf(all_names, {normalized_input}))
       ELSE [i \in DOMAIN matches |->
                CHOOSE n \in NamesOf(all_names, {matches[i]}) : TRUE]

\* Strategy 2 run even when strategy 1 found names, and added to them.
SuggestionsWithFuzzy(all_names, normalized_input) ==
    SortedStrs(NamesOf(all_names, {normalized_input})
               \cup NamesOf(all_names,
                        Range(GetCloseMatches(normalized_input,
                                  Norms(all_names), MaxCloseMatches))))

\* Strategy 1 (exact match), then strategy 2 (fuzzy matching) when the first
\* found nothing; sorted(results) either way.
Suggestions(all_names, normalized_input) ==
    IF NamesOf(all_names, {normalized_input}) # {}
    THEN SortedStrs(NamesOf(all_names, {normalized_input}))
    ELSE SortedStrs(NamesOf(all_names,
                        Range(GetCloseMatches(normalized_input,
                                  Norms(all_names), MaxCloseMatches))))

\* The cities correct_city looks at.
CityNamesInScope(d, postcode) ==
    AllNames(d.city_map, Pc4Filter(postcode) # <<>>,
             CachedCitiesByPc4(d, Pc4Filter(postcode)))

\* The streets correct_street looks at.
StreetNamesInScope(d, postcode) ==
    AllNames(d.street_map, Pc6Filter(postcode) # <<>>,
             StreetIdsIn(CachedAddressesByPc6(d, Pc6Filter(postcode))))

\* AddressCorrector.correct_city
CorrectCity(d, city, postcode) ==
    Suggestions(CityNamesInScope(d, postcode), NormalizeName(city))

\* AddressCorrector.correct_street
CorrectStreet(d, street, postcode) ==
    Suggestions(StreetNamesInScope(d, postcode), NormalizeName(street))

\* str(n) of an int
IntToStr(n) == IF n < 0 THEN <<"-">> \o IntToDigits(0 - n) ELSE IntToDigits(n)

\* The dict search_addresses appends for a RangeEntry.
AddressRecord(street, entry, postcode, city) ==
    [street |-> street,
     house_number_range |->
         IntToStr(entry.hnr_from) \o <<"-">> \o IntToStr(entry.hnr_to),
     postcode |-> postcode,
     city |-> city]

\* The dict search_addresses appends for a city of a pc4.
CityRecord(city, pc4) ==
    [city |-> city, postcode_prefix |-> pc4, type |-> <<"c", "i", "t", "y">>]

\* re.match(r'(\d{4})\s?([A-Za-z]{2})?', query): None, or groups 1 and 2
\* (group 2 '' when it took no part in the match).
PostcodeMatch(query) ==
    LET at == IF Len(query) >= 5 /\ IsSpace(query[5]) THEN 6 ELSE 5 IN
    IF ~(Len(query) >= 4 /\ AllDigits(SubSeq(query, 1, 4))) THEN None
    ELSE [g1 |-> SubSeq(query, 1, 4),
          g2 |-> IF Len(query) >= at + 1 /\ IsAsciiLetter(query[at])
                                         /\ IsAsciiLetter(query[at + 1])
                 THEN SubSeq(query, at, at + 1) ELSE <<>>]

\* seq[:n] for n >= 0
Take(seq, n) == SubSeq(seq, 1, Min(n, Len(seq)))

\* The pc6 branch: the first `limit` entries, each giving a record when its
\* street and its city are found and not ''.
RECURSIVE Pc6Records(_, _, _)
Pc6Records(d, entries, postcode) ==
    IF entries = <<>> THEN <<>>
    ELSE (IF Truthy(GetStreetById(d, Head(entries).street_id))
             /\ Truthy(GetCityById(d, Head(entries).city_id))
          THEN <<AddressRecord(
                   GetStreetById(d, Head(entries).street_id).value,
                   Head(entries), postcode,
                   GetCityById(d, Head(entries).city_id).value)>>
          ELSE <<>>)
         \o Pc6Records(d, Tail(entries), postcode)

\* list(city_ids): CPython lists a set of small non-negative ints in
\* ascending order.
RECURSIVE SetToList(_)
SetToList(S) ==
    IF S = {} THEN <<>>
    ELSE LET least == CHOOSE x \in S : \A y \in S : x <= y
         IN <<least>> \o SetToList(S \ {least})

\* [:5] of the pc4 branch and [:3] of the city search.
MaxPc4Cities == 5
MaxCitySuggestions == 3

\* The pc4 branch: a record for each of the first cities with a name.
RECURSIVE Pc4Records(_, _, _)
Pc4Records(d, city_ids, pc4) ==
    IF city_ids = <<>> THEN <<>>
    ELSE (IF Truthy(GetCityById(d, Head(city_ids)))
          THEN <<CityRecord(GetCityById(d, Head(city_ids)).value, pc4)>>
          ELSE <<>>)
         \o Pc4Records(d, Tail(city_ids), pc4)

\* The postcode part of search_addresses, on the trimmed upper-cased query.
PostcodeRecords(d, query, limit, pc_match) ==
    IF pc_match = None THEN <<>>
    ELSE IF pc_match.g2 # <<>>
    THEN Pc6Records(d,
             Take(CachedAddressesByPc6(d, pc_match.g1 \o pc_match.g2), limit),
             pc_match.g1 \o <<" ">> \o pc_match.g2)
    ELSE Pc4Records(d,
             Take(SetToList(CachedCitiesByPc4(d, pc_match.g1)), MaxPc4Cities),
             pc_match.g1)

\* for entry in entries: the record of the first entry of the city that has
\* a street, if any.
RECURSIVE FirstOfCity(_, _, _, _)
FirstOfCity(d, city, pc6, entries) ==
    IF entries = <<>> THEN <<>>
    ELSE IF /\ Head(entries).city_id # 0
            /\ GetCityById(d, Head(entries).city_id) = Returned(city)
            /\ Truthy(GetStreetById(d, Head(entries).street_id))
    THEN <<AddressRecord(GetStreetById(d, Head(entries).street_id).value,
                         Head(entries),
                         SubSeq(pc6, 1, 4) \o <<" ">> \o SubSeq(pc6, 5, Len(pc6)),
                         city)>>
    ELSE FirstOfCity(d, city, pc6, Tail(entries))

\* for pc6, entries in self.data._pc6_index.items(): left once the results
\* have reached the limit.
RECURSIVE ScanIndex(_, _, _, _, _)
RECURSIVE ScanIndexFrom(_, _, _, _, _)
ScanIndexFrom(d, city, items, results, limit) ==
    IF Len(results) >= limit THEN results
    ELSE ScanIndex(d, city, Tail(items), results, limit)

ScanIndex(d, city, items, results, limit) ==
    IF items = <<>> THEN results
    ELSE ScanIndexFrom(d, city, items,
             results \o FirstOfCity(d, city, Head(items).k, Head(items).v),
             limit)

\* for city in city_suggestions[:3]
RECURSIVE ScanCities(_, _, _, _)
ScanCities(d, cities, results, limit) ==
    IF cities = <<>> THEN results
    ELSE ScanCities(d, Tail(cities),
                    ScanIndex(d, Head(cities), d.pc6_index, results, limit),
                    limit)

\* The city search of search_addresses, entered while the results are fewer
\* than the limit.
WithCitySearch(d, query, limit, results) ==
    IF Len(results) < limit
    THEN ScanCities(d, Take(CorrectCity(d, query, <<>>), MaxCitySuggestions),
                    results, limit)
    ELSE results

\* search_addresses once the query is trimmed and upper-cased.
SearchUpper(d, query, limit) ==
    IF Len(query) < 2 THEN <<>>
    ELSE Take(WithCitySearch(d, query, limit,
                  PostcodeRecords(d, query, limit, PostcodeMatch(query))),
              limit)

\* AddressCorrector.search_addresses
SearchAddresses(d, query, limit) == SearchUpper(d, Upper(Strip(query)), limit)

(***************************************************************************)
(* The queries on a built index: a DataLoader constructed over a data      *)
(* directory, an AddressCorrector over it, and calls of their methods in   *)
(* any order.                                                              *)
(***************************************************************************)
\* Two cities and two streets; a pc6 with two streets, a street in two pc6.
PlainData ==
    [wpl |-> File(<< <<"1", "~", "A", "b">>,
          <<"2", "~", "C", "d">> >>),
     str |-> File(<< <<"7", "~", "E", "f">>,
          <<"8", "~", "G", "h">> >>),
     hnr |-> File(<< <<"1", "2", "3", "4", "A", "B", "|", "3", "|", "5", "|", "7", "|", "1">>,
          <<"1", "2", "3", "4", "A", "B", "|", "1", "0", "|", "1", "2", "|", "8", "|", "1">>,
          <<"5", "6", "7", "8", "C", "D", "|", "2", "0", "|", "2", "2", "|", "7", "|", "2">> >>)]

\* A postcode written in lower case in the file.
LowerCaseData ==
    [wpl |-> File(<< <<"1", "~", "A", "b">> >>),
     str |-> File(<< <<"7", "~", "E", "f">> >>),
     hnr |-> File(<< <<"1", "2", "3", "4", "a", "b", "|", "3", "|", "5", "|", "7", "|", "1">> >>)]

\* A street and a city with the id 0.
ZeroIdData ==
    [wpl |-> File(<< <<"0", "~", "A", "b">>,
          <<"1", "~", "C", "d">> >>),
     str |-> File(<< <<"0", "~", "E", "f">>,
          <<"7", "~", "E", "f">> >>),
     hnr |-> File(<< <<"1", "2", "3", "4", "A", "B", "|", "3", "|", "5", "|", "0", "|", "1">>,
          <<"1", "2", "3", "4", "A", "B", "|", "3", "|", "5", "|", "7", "|", "0">> >>)]

\* Names close to one another, a name held by two ids, and an entry whose
\* street id is in no file before one whose ids are.
CloseNamesData ==
    [wpl |-> File(<< <<"1", "~", "A", "b", "c">>,
          <<"2", "~", "A", "b", "d">>,
          <<"3", "~", "A", "b", "c">> >>),
     str |-> File(<< <<"7", "~", "A", "b", "c", "x">>,
          <<"8", "~", "B", "c", "x">>,
          <<"6", "~", "B", "c", "y">> >>),
     hnr |-> File(<< <<"1", "2", "3", "4", "A", "B", "|", "1", "|", "2", "|", "9", "|", "1">>,
          <<"1", "2", "3", "4", "A", "B", "|", "3", "|", "5", "|", "7", "|", "1">>,
          <<"1", "2", "3", "4", "A", "B", "|", "6", "|", "8", "|", "8", "|", "2">> >>)]

\* Twelve streets whose names differ and normalize to the same 'a b'.
SameNormData ==
    [wpl |-> File(<< <<"1", "~", "A", "b">> >>),
     str |-> File(<< <<"1", "~", "a", " ", "b">>,
          <<"2", "~", "a", " ", "B">>,
          <<"3", "~", "a", "-", "b">>,
          <<"4", "~", "a", "-", "B">>,
          <<"5", "~", "a", "'", "b">>,
          <<"6", "~", "a", "'", "B">>,
          <<"7", "~", "A", " ", "b">>,
          <<"8", "~", "A", " ", "B">>,
          <<"9", "~", "A", "-", "b">>,
          <<"1", "0", "~", "A", "-", "B">>,
          <<"1", "1", "~", "A", "'", "b">>,
          <<"1", "2", "~", "A", "'", "B">> >>),
     hnr |-> File(<< <<"1", "2", "3", "4", "A", "B", "|", "3", "|", "5", "|", "1", "|", "1">> >>)]

QueryData ==
    {PlainData, LowerCaseData, ZeroIdData, CloseNamesData, SameNormData}

\* The DataLoader the calls are made on: its indexes and its caches.
Self ==
    [city_map |-> city_map, street_map |-> street_map,
     pc6_index |-> pc6_index, pc4_index |-> pc4_index,
     street_id_to_pc6 |-> street_id_to_pc6,
     city_name_to_id |-> city_name_to_id,
     street_name_to_id |-> street_name_to_id,
     pc6_cache |-> pc6_cache, pc4_cache |-> pc4_cache]

\* DataLoader(data_dir) over the files: the files, the indexes as built.
LoaderBuilt(data, L) ==
    /\ wplFile = data.wpl /\ strFile = data.str /\ hnrFile = data.hnr
    /\ loadPc = "ready" /\ loads = 1
    /\ city_map = L.city_map /\ street_map = L.street_map
    /\ pc6_index = L.pc6_index /\ pc4_index = L.pc4_index
    /\ street_id_to_pc6 = L.street_id_to_pc6
    /\ city_name_to_id = L.city_name_to_id
    /\ street_name_to_id = L.street_name_to_id

InitQuery ==
    /\ \E data \in QueryData :
         LoaderBuilt(data, LoadAllData(EmptyLoader, data.wpl, data.str,
                                       data.hnr))
    /\ pc6_cache = EmptyDict /\ pc4_cache = EmptyDict
    /\ IdleText /\ IdleAddr /\ IdleApi

\* The arguments the calls are made with.
Pc6Args == {<<"1", "2", "3", "4", "A", "B">>, <<"1", "2", "3", "4", "a", "b">>}
Pc4Args == {<<"1", "2", "3", "4">>}
IdArgs == {0, 7, 9}
HouseNumberArgs == {4, 11, 21}
CityNameArgs == {<<"a", "b">>, <<"a", "b", "d">>}
StreetNameArgs == {<<"E", "F">>, <<"a", " ", "c">>, <<"b", "c">>}
PostcodeFilterArgs == {<<>>, <<"1", "2", "3", "4", " ", "a", "b">>, <<"1", "2", "3", "4">>, <<"x">>}
SearchArgs == {<<"1", "2", "3", "4", "A", "B">>, <<"1", "2", "3", "4", " ", "a", "b">>, <<"1", "2", "3", "4">>, <<"a", "b", "d">>, <<"a">>}
LimitArgs == {1, 2, 10}

\* What the call c returns on the DataLoader d.
Answer(d, c) ==
    CASE c.op = "get_addresses_by_pc6" -> CachedAddressesByPc6(d, c.pc6)
      [] c.op = "get_cities_by_pc4" -> CachedCitiesByPc4(d, c.pc4)
      [] c.op = "get_city_by_id" -> GetCityById(d, c.city_id)
      [] c.op = "get_street_by_id" -> GetStreetById(d, c.street_id)
      [] c.op = "find_city_ids_by_name" ->
             FindCityIdsByName(d, c.city_name, c.pc4)
      [] c.op = "find_street_ids_by_name" ->
             FindStreetIdsByName(d, c.street_name, c.pc6)
      [] c.op = "is_house_number_valid" ->
             IsHouseNumberValid(d, c.street_id, c.pc6, c.house_number)
      [] c.op = "correct_city" -> CorrectCity(d, c.city, c.postcode)
      [] c.op = "correct_street" -> CorrectStreet(d, c.street, c.postcode)
      [] c.op = "search_addresses" -> SearchAddresses(d, c.query, c.limit)

\* The pc6 of search_addresses's lookup, '' when it makes none.
SearchPc6(query, pc_match) ==
    IF Len(query) >= 2 /\ pc_match # None /\ pc_match.g2 # <<>>
    THEN pc_match.g1 \o pc_match.g2 ELSE <<>>

\* The pc4 of search_addresses's lookup
SearchPc4(query, pc_match) ==
    IF Len(query) >= 2 /\ pc_match # None /\ pc_match.g2 = <<>>
    THEN pc_match.g1 ELSE <<>>

\* The argument the call c hands to get_addresses_by_pc6 ('' when it does
\* not call it).
Pc6LookedUp(d, c) ==
    CASE c.op \in {"get_addresses_by_pc6", "find_street_ids_by_name",
                   "is_house_number_valid"} -> c.pc6
      [] c.op = "correct_street" ->
             IF d.street_map # <<>> THEN Pc6Filter(c.postcode) ELSE <<>>
      [] c.op = "search_addresses" ->
             SearchPc6(Upper(Strip(c.query)),
                       PostcodeMatch(Upper(Strip(c.query))))
      [] OTHER -> <<>>

\* The argument the call c hands to get_cities_by_pc4
Pc4LookedUp(d, c) ==
    CASE c.op \in {"get_cities_by_pc4", "find_city_ids_by_name"} -> c.pc4
      [] c.op = "correct_city" ->
             IF d.city_map # <<>> THEN Pc4Filter(c.postcode) ELSE <<>>
      [] c.op = "search_addresses" ->
             SearchPc4(Upper(Strip(c.query)),
                       PostcodeMatch(Upper(Strip(c.query))))
      [] OTHER -> <<>>

\* A defaultdict after d[key], which adds a missing key with its default.
AfterGetItem(m, key, default) ==
    IF DictHas(m, key) THEN m ELSE DictSet(m, key, default)

\* A defaultdict after d.get(key, default), which adds nothing.
AfterGet(m, key, default) == m

\* _pc6_index after get_addresses_by_pc6(pc6), whose body runs when the
\* cache does not hold the argument.
Pc6IndexAfter(d, pc6) ==
    IF pc6 = <<>> \/ DictHas(d.pc6_cache, pc6) THEN d.pc6_index
    ELSE AfterGet(d.pc6_index, Upper(pc6), <<>>)

\* _pc4_index after get_cities_by_pc4(pc4)
Pc4IndexAfter(d, pc4) ==
    IF pc4 = <<>> \/ DictHas(d.pc4_cache, pc4) THEN d.pc4_index
    ELSE AfterGet(d.pc4_index, pc4, {})

\* The call just chosen (call') made on the DataLoader: its result, and
\* what it leaves in the caches and the indexes.
Performed ==
    /\ result' = Returned(Answer(Self, call'))
    /\ pc6_cache' = IF Pc6LookedUp(Self, call') = <<>> THEN pc6_cache
                    ELSE CachePut(pc6_cache, Pc6LookedUp(Self, call'),
                             GetAddressesByPc6(Self, Pc6LookedUp(Self, call')))
    /\ pc4_cache' = IF Pc4LookedUp(Self, call') = <<>> THEN pc4_cache
                    ELSE CachePut(pc4_cache, Pc4LookedUp(Self, call'),
                             GetCitiesByPc4(Self, Pc4LookedUp(Self, call')))
    /\ pc6_index' = Pc6IndexAfter(Self, Pc6LookedUp(Self, call'))
    /\ pc4_index' = Pc4IndexAfter(Self, Pc4LookedUp(Self, call'))
    /\ city_map' = IF call'.op = "get_city_by_id"
                   THEN AfterGet(city_map, call'.city_id, None) ELSE city_map
    /\ street_map' = IF call'.op = "get_street_by_id"
                     THEN AfterGet(street_map, call'.street_id, None)
                     ELSE street_map
    /\ city_name_to_id' =
           IF call'.op = "find_city_ids_by_name"
           THEN AfterGet(city_name_to_id, NormalizeName(call'.city_name), <<>>)
           ELSE city_name_to_id
    /\ street_name_to_id' =
           IF call'.op = "find_street_ids_by_name"
           THEN AfterGet(street_name_to_id, NormalizeName(call'.street_name),
                         <<>>)
           ELSE street_name_to_id
    /\ UNCHANGED <<loadPc, street_id_to_pc6, nameVars, addrVars, fileVars,
                   loads>>

\* get_addresses_by_pc6(pc6)
CallGetAddressesByPc6 ==
    /\ \E pc6 \in Pc6Args :
         call' = [op |-> "get_addresses_by_pc6", pc6 |-> pc6]
    /\ Performed

\* get_cities_by_pc4(pc4)
CallGetCitiesByPc4 ==
    /\ \E pc4 \in Pc4Args : call' = [op |-> "get_cities_by_pc4", pc4 |-> pc4]
    /\ Performed

\* get_city_by_id(city_id)
CallGetCityById ==
    /\ \E id \in IdArgs : call' = [op |-> "get_city_by_id", city_id |-> id]
    /\ Performed

\* get_street_by_id(street_id)
CallGetStreetById ==
    /\ \E id \in IdArgs :
         call' = [op |-> "get_street_by_id", street_id |-> id]
    /\ Performed

\* find_city_ids_by_name(city_name, pc4)
CallFindCityIdsByName ==
    /\ \E name \in CityNameArgs, pc4 \in Pc4Args \cup {<<>>} :
         call' = [op |-> "find_city_ids_by_name", city_name |-> name,
                  pc4 |-> pc4]
    /\ Performed

\* find_street_ids_by_name(street_name, pc6)
CallFindStreetIdsByName ==
    /\ \E name \in StreetNameArgs, pc6 \in Pc6Args \cup {<<>>} :
         call' = [op |-> "find_street_ids_by_name", street_name |-> name,
                  pc6 |-> pc6]
    /\ Performed

\* is_house_number_valid(street_id, pc6, house_number)
CallIsHouseNumberValid ==
    /\ \E id \in IdArgs, pc6 \in Pc6Args, n \in HouseNumberArgs :
         call' = [op |-> "is_house_number_valid", street_id |-> id,
                  pc6 |-> pc6, house_number |-> n]
    /\ Performed

\* correct_city(city, postcode)
CallCorrectCity ==
    /\ \E city \in CityNameArgs, postcode \in PostcodeFilterArgs :
         call' = [op |-> "correct_city", city |-> city, postcode |-> postcode]
    /\ Performed

\* correct_street(street, postcode)
CallCorrectStreet ==
    /\ \E street \in StreetNameArgs, postcode \in PostcodeFilterArgs :
         call' = [op |-> "correct_street", street |-> street,
                  postcode |-> postcode]
    /\ Performed

\* search_addresses(query, limit)
CallSearchAddresses ==
    /\ \E query \in SearchArgs, limit \in LimitArgs :
         call' = [op |-> "search_addresses", query |-> query, limit |-> limit]
    /\ Performed

NextQuery ==
    \/ CallGetAddressesByPc6 \/ CallGetCitiesByPc4 \/ CallGetCityById
    \/ CallGetStreetById \/ CallFindCityIdsByName \/ CallFindStreetIdsByName
    \/ CallIsHouseNumberValid \/ CallCorrectCity \/ CallCorrectStreet
    \/ CallSearchAddresses

SpecQuery == InitQuery /\ [][NextQuery]_vars

(***************************************************************************)
(* The two-line text format: Addresses written with to_lines and read back *)
(* with from_lines, and from_lines on lines of any kind.                   *)
(***************************************************************************)
StreetNameFields ==
    {<<>>,
     <<"S">>,
     <<" ", "S">>,
     <<"S", " ">>,
     <<"S", " ", " ", "T">>,
     <<"S", " ", "2">>,
     <<"S", "\t", "T">>}
HouseNumberFields == {0, 12}
ExtensionFields == {<<>>,
                   <<"b">>,
                   <<"e_acute">>}
PostcodeFields == {<<"1", "2", "3", "4", "a", "b">>,
                  <<"1", "2">>}
CityFields ==
    {<<>>,
     <<"C">>,
     <<" ", "C">>,
     <<"C", " ">>,
     <<"C", " ", "D">>,
     <<"C", " ", " ", "D">>,
     <<"C", " ", "\t", "D">>,
     <<"C", "\t", "D">>}

\* The lists handed to from_lines.
AddressLinesArgs ==
    {<<<<"S", " ", "1">>>>,
     <<<<"S", " ", "1">>, <<"1", "2", "3", "4", " ", "A", "B", " ", " ", "C">>, <<"x">>>>,
     <<>>,
     <<<<"S", " ", "1">>, <<"1", "2", "3", "4", " ", "A", "B", " ", " ", "C">>>>,
     <<<<"S", " ", "1", "b">>, <<"1", "2", "3", "4", " ", "A", "B", " ", "C">>>>,
     <<<<"S">>, <<"1", "2", "3", "4", " ", "A", "B", " ", " ", "C">>>>,
     <<<<>>, <<"1", "2", "3", "4", " ", "A", "B", " ", " ", "C">>>>,
     <<<<"S", " ", "1">>, <<"I", "n", "v", "a", "l", "i", "d", " ", " ", "C", "i", "t", "y">>>>,
     <<<<"S", " ", "1">>, <<"1", "2", " ", " ", "C">>>>,
     <<<<"S", " ", "1">>, <<"I", "n", "v", "a", "l", "i", "d", " ", "C", " ", "D">>>>,
     <<<<"S", " ", "1">>, <<"1", "2", "3", "4", "A", "B", " ", "C">>>>,
     <<<<"S", " ", "1">>, <<"C">>>>,
     <<<<"S", " ", "1">>, <<>>>>,
     <<<<" ", "S", " ", " ", "1", "2", " ">>, <<"\t", "1", "2", "3", "4", "a", "b", " ", "\t", " ", "C", " ", "D", " ">>>>,
     <<<<"S", " ", "o", "n", "e">>, <<"1", "2", "3", "4", " ", "A", "B", " ", " ", "C">>>>,
     <<<<"S", " ", "1">>, <<"1", "2", "3", "4", " ", "A", "B", "\t", "C">>>>}

InitLines ==
    /\ pcArg = <<>> /\ addr = None
    /\ IdleText /\ IdleFiles /\ IdleLoader /\ IdleApi

\* What a caller of from_lines gets: the Address, or the exception.
Outcome(r) == IF IsRaised(r) THEN r ELSE Returned(r)

\* A = Address(street_name, house_number, house_number_extension, postcode,
\* city)
NewAddressOfFields ==
    /\ addr = None /\ call.op = "none"
    /\ \E street_name \in StreetNameFields, house_number \in HouseNumberFields,
          ext \in ExtensionFields, postcode \in PostcodeFields,
          city \in CityFields :
         /\ pcArg' = postcode
         /\ addr' = NewAddress(street_name, house_number, ext, postcode, city)
    /\ UNCHANGED <<nameVars, fileVars, loadVars, apiVars, cacheVars, loads>>

\* Address.from_lines(A.to_lines())
RoundTrip ==
    /\ addr # None /\ call.op = "none"
    /\ call' = [op |-> "round_trip", address_lines |-> ToLines(addr)]
    /\ result' = Outcome(FromLines(ToLines(addr)))
    /\ UNCHANGED <<nameVars, addrVars, fileVars, loadVars, cacheVars, loads>>

\* Address.from_lines(address_lines)
CallFromLines ==
    /\ addr = None /\ call.op = "none"
    /\ \E address_lines \in AddressLinesArgs :
         /\ call' = [op |-> "from_lines", address_lines |-> address_lines]
         /\ result' = Outcome(FromLines(address_lines))
    /\ UNCHANGED <<nameVars, addrVars, fileVars, loadVars, cacheVars, loads>>

NextLines == NewAddressOfFields \/ RoundTrip \/ CallFromLines

SpecLines == InitLines /\ [][NextLines]_vars

(***************************************************************************)
(* search_addresses on its own: the classification of the query and the    *)
(* city-name step.                                                         *)
(***************************************************************************)
\* A city with RangeEntries under four postcodes, and four more cities
\* whose names are close to its name.
SpreadCityData ==
    [wpl |-> File(<< <<"1", "~", "A", "b">>,
                  <<"2", "~", "A", "b", "c">>,
                  <<"3", "~", "A", "b", "d">>,
                  <<"4", "~", "A", "b", "e">>,
                  <<"5", "~", "A", "b", "f">> >>),
     str |-> File(<< <<"7", "~", "E", "f">> >>),
     hnr |-> File(<< <<"1", "1", "1", "1", "A", "A", "|", "1", "|", "2", "|", "7", "|", "1">>,
                  <<"1", "2", "3", "4", "A", "B", "|", "3", "|", "4", "|", "7", "|", "2">>,
                  <<"2", "2", "2", "2", "B", "B", "|", "1", "|", "2", "|", "7", "|", "1">>,
                  <<"3", "3", "3", "3", "C", "C", "|", "1", "|", "2", "|", "7", "|", "1">>,
                  <<"4", "4", "4", "4", "D", "D", "|", "1", "|", "2", "|", "7", "|", "1">>,
                  <<"5", "5", "5", "5", "E", "E", "|", "1", "|", "2", "|", "7", "|", "3">>,
                  <<"6", "6", "6", "6", "F", "F", "|", "1", "|", "2", "|", "7", "|", "4">>,
                  <<"7", "7", "7", "7", "G", "G", "|", "1", "|", "2", "|", "7", "|", "5">> >>)]

SearchData == {PlainData, SpreadCityData}

SearchTexts ==
    {<<"a", "b">>,
     <<"a", "b", "x">>,
     <<"1", "2", "3", "4">>,
     <<"1", "2", "3", "4", "a", "b">>,
     <<"1", "2", "3", "4", "5">>,
     <<"1", "2", "3", "4", "a", "b", "c">>,
     <<"1", "2", "3", "4", " ", "x">>}
SearchLimits == {1, 2, 10}

InitSearch ==
    /\ \E data \in SearchData :
         LoaderBuilt(data, LoadAllData(EmptyLoader, data.wpl, data.str,
                                       data.hnr))
    /\ pc6_cache = EmptyDict /\ pc4_cache = EmptyDict
    /\ IdleText /\ IdleAddr /\ IdleApi

\* search_addresses(query, limit) on free text
SearchByText ==
    /\ \E query \in SearchTexts, limit \in SearchLimits :
         call' = [op |-> "search_addresses", query |-> query, limit |-> limit]
    /\ Performed

NextSearch == SearchByText \/ CallCorrectCity \/ CallGetCitiesByPc4

SpecSearch == InitSearch /\ [][NextSearch]_vars

(***************************************************************************)
(* The process as its callers see it: the public functions of validator.py *)
(* and corrector.py called one after another, and the number of times the  *)
(* reference files are loaded for them.                                    *)
(***************************************************************************)
\* The loader L before any call: its caches hold nothing.
BeforeAnyCall(L) ==
    [city_map |-> L.city_map, street_map |-> L.street_map,
     pc6_index |-> L.pc6_index, pc4_index |-> L.pc4_index,
     street_id_to_pc6 |-> L.street_id_to_pc6,
     city_name_to_id |-> L.city_name_to_id,
     street_name_to_id |-> L.street_name_to_id,
     pc6_cache |-> EmptyDict, pc4_cache |-> EmptyDict]

\* corrector.correct_city: a DutchAddressHandler of its own, then its
\* corrector on its DataLoader.
HandlerCorrectCity(handler, city, postcode) ==
    IF IsRaised(handler) THEN handler
    ELSE Returned(CorrectCity(BeforeAnyCall(handler.data_loader), city,
                              postcode))

PublicCorrectCity(wpl, str, hnr, city, postcode) ==
    HandlerCorrectCity(NewHandler(wpl, str, hnr), city, postcode)

\* corrector.correct_street
HandlerCorrectStreet(handler, street, postcode) ==
    IF IsRaised(handler) THEN handler
    ELSE Returned(CorrectStreet(BeforeAnyCall(handler.data_loader), street,
                                postcode))

PublicCorrectStreet(wpl, str, hnr, street, postcode) ==
    HandlerCorrectStreet(NewHandler(wpl, str, hnr), street, postcode)

\* correct_city(city, postcode)
CorrectCityCall ==
    /\ \E city \in CityNameArgs, postcode \in PostcodeFilterArgs :
         /\ call' = [op |-> "correct_city", city |-> city,
                     postcode |-> postcode]
         /\ result' = PublicCorrectCity(wplFile, strFile, hnrFile, city,
                                        postcode)
    /\ loads < MaxLoads
    /\ loads' = loads + LoadsOfNewHandler
    /\ UNCHANGED <<nameVars, addrVars, fileVars, loadVars, cacheVars>>

\* correct_street(street, postcode)
CorrectStreetCall ==
    /\ \E street \in StreetNameArgs, postcode \in PostcodeFilterArgs :
         /\ call' = [op |-> "correct_street", street |-> street,
                     postcode |-> postcode]
         /\ result' = PublicCorrectStreet(wplFile, strFile, hnrFile, street,
                                          postcode)
    /\ loads < MaxLoads
    /\ loads' = loads + LoadsOfNewHandler
    /\ UNCHANGED <<nameVars, addrVars, fileVars, loadVars, cacheVars>>

NextProcess == Validate \/ ValidateLines \/ CorrectCityCall \/ CorrectStreetCall

SpecProcess == InitApi /\ [][NextProcess]_vars

(***************************************************************************)
(* The reference data loaded again on a DataLoader in use: the only        *)
(* reload the code has is a second call of _load_all_data, which neither   *)
(* empties the dicts __init__ made nor clears the two lru_caches.          *)
(***************************************************************************)
ReloadData == {PlainData, LowerCaseData, ZeroIdData}

\* The DataLoader as _load_all_data finds it when called again.
LiveLoader ==
    [exc |-> "none", city_map |-> city_map, street_map |-> street_map,
     pc6_index |-> pc6_index, pc4_index |-> pc4_index,
     street_id_to_pc6 |-> street_id_to_pc6,
     city_name_to_id |-> city_name_to_id,
     street_name_to_id |-> street_name_to_id]

\* The DataLoader a new DataLoader(data_dir) over the present files holds.
FreshLoader == LoadAllData(EmptyLoader, wplFile, strFile, hnrFile)

\* _load_all_data has left the DataLoader as L: its seven dicts, and the
\* cached lists and sets that are those of the dicts.
LoadedInPlace(L) ==
    /\ loadPc' = IF L.exc = "none" THEN "ready" ELSE L.exc
    /\ city_map' = L.city_map /\ street_map' = L.street_map
    /\ pc6_index' = L.pc6_index /\ pc4_index' = L.pc4_index
    /\ street_id_to_pc6' = L.street_id_to_pc6
    /\ city_name_to_id' = L.city_name_to_id
    /\ street_name_to_id' = L.street_name_to_id
    /\ pc6_cache' = Pc6CacheAfterLoad(pc6_cache, L.pc6_index)
    /\ pc4_cache' = Pc4CacheAfterLoad(pc4_cache, L.pc4_index)

InitReload ==
    /\ \E data \in ReloadData :
         LoaderBuilt(data, LoadAllData(EmptyLoader, data.wpl, data.str,
                                       data.hnr))
    /\ pc6_cache = EmptyDict /\ pc4_cache = EmptyDict
    /\ IdleText /\ IdleAddr /\ IdleApi

\* loader._load_all_data() on the DataLoader in use, over the files as the
\* data directory holds them by then.
Reload ==
    /\ loadPc = "ready"
    /\ loads < MaxLoads
    /\ loads' = loads + 1
    /\ \E data \in ReloadData :
         /\ wplFile' = data.wpl /\ strFile' = data.str /\ hnrFile' = data.hnr
         /\ LoadedInPlace(LoadAllData(LiveLoader, data.wpl, data.str,
                                      data.hnr))
    /\ call' = [op |-> "_load_all_data"]
    /\ result' = Returned(None)
    /\ UNCHANGED <<nameVars, addrVars>>

NextReload == Reload \/ CallGetAddressesByPc6 \/ CallGetCitiesByPc4

SpecReload == InitReload /\ [][NextReload]_vars

(***************************************************************************)
(* Queries made by one thread while another calls _load_all_data on the    *)
(* same DataLoader, after the data provider has replaced the files. The    *)
(* loader takes no lock and fills the dicts the readers use, one file      *)
(* after the other.                                                        *)
(***************************************************************************)
\* The release the DataLoader was built over, and the one that replaces it:
\* city 1 and street 7 renamed, one postcode added.
OldData == PlainData
NewData ==
    [wpl |-> File(<< <<"1", "~", "A", "b", "d">>,
          <<"2", "~", "C", "d">> >>),
     str |-> File(<< <<"7", "~", "E", "g">>,
          <<"8", "~", "G", "h">> >>),
     hnr |-> File(<< <<"1", "2", "3", "4", "A", "B", "|", "3", "|", "5", "|", "7", "|", "1">>,
          <<"1", "2", "3", "5", "A", "B", "|", "1", "|", "9", "|", "8", "|", "2">> >>)]

InitConcurrent ==
    /\ LoaderBuilt(OldData, LoadAllData(EmptyLoader, OldData.wpl, OldData.str,
                                        OldData.hnr))
    /\ pc6_cache = EmptyDict /\ pc4_cache = EmptyDict
    /\ IdleText /\ IdleAddr /\ IdleApi

\* The files of the data directory replaced by those of the new release.
PublishNewData ==
    /\ loadPc = "ready" /\ loads = 1
    /\ wplFile = OldData.wpl
    /\ wplFile' = NewData.wpl /\ strFile' = NewData.str
    /\ hnrFile' = NewData.hnr
    /\ UNCHANGED <<nameVars, addrVars, loadVars, cacheVars, apiVars, loads>>

\* _load_all_data entered again on the DataLoader in use: the dicts stay
\* as they are, and LoadWpl, LoadStr, LoadHnr and BuildReverseIndexes run on.
StartReload ==
    /\ loadPc = "ready"
    /\ wplFile = NewData.wpl
    /\ loads < MaxLoads
    /\ loads' = loads + 1
    /\ loadPc' = "wpl"
    /\ UNCHANGED <<nameVars, addrVars, fileVars, indexVars, cacheVars,
                   apiVars>>

NextConcurrent ==
    \/ PublishNewData \/ StartReload
    \/ LoadWpl \/ LoadStr \/ LoadHnr \/ BuildReverseIndexes
    \/ CallSearchAddresses \/ CallGetCityById \/ CallCorrectCity

SpecConcurrent == InitConcurrent /\ [][NextConcurrent]_vars

(***************************************************************************)
(* Properties of postcode canonicalization (checked under SpecAddr).       *)
(***************************************************************************)
\* 4 digits followed by 2 letters.
IsPc6Shape(q) ==
    Len(q) = 6 /\ AllDigits(SubSeq(q, 1, 4)) /\ AllAlpha(SubSeq(q, 5, 6))

\* 'DDDD XX': 4 digits, one space, 2 upper-case letters.
IsCanonicalPostcode(s) ==
    /\ Len(s) = 7
    /\ \A i \in 1..4 : IsDigit(s[i])
    /\ s[5] = " "
    /\ \A i \in 6..7 : IsUpper(s[i])

\* p with all of its whitespace removed.
RemoveWhitespace(s) == SelectSeq(s, LAMBDA c : ~IsSpace(c))

\* C4 as stated: the stored postcode is the canonical form of the input when
\* the input without its whitespace is 4 digits + 2 letters, and otherwise the
\* input trimmed and upper-cased, interior spaces kept.
C4_TrimmedOtherwise ==
    addr # None =>
        LET q == Upper(RemoveWhitespace(pcArg)) IN
        IF IsPc6Shape(q)
        THEN addr.postcode = SubSeq(q, 1, 4) \o <<" ">> \o SubSeq(q, 5, 6)
        ELSE addr.postcode = Upper(Strip(pcArg))

\* C4 as amended: with q the input upper-cased and with every space removed,
\* the stored postcode carries exactly the characters of q; it is the
\* canonical 'DDDD XX' form when q is 4 digits + 2 letters, and otherwise q
\* itself, which holds no space at all.
C4_SpacesRemovedOtherwise ==
    addr # None =>
        LET q == Upper(RemoveSpaces(pcArg)) IN
        /\ RemoveSpaces(addr.postcode) = q
        /\ IsPc6Shape(q) => IsCanonicalPostcode(addr.postcode)
        /\ ~IsPc6Shape(q) => ~Contains(addr.postcode, " ")

\* An Address was built from a text that is no postcode and has a space
\* between two other characters.
C4_Witness ==
    /\ addr # None
    /\ ~IsPc6Shape(Upper(RemoveSpaces(pcArg)))
    /\ \E i \in 2..(Len(pcArg) - 1) :
         pcArg[i] = " " /\ pcArg[1] # " " /\ pcArg[Len(pcArg)] # " "
    /\ addr.postcode # <<>>

(***************************************************************************)
(* Properties of the normalizer (checked under SpecName).                  *)
(***************************************************************************)
\* C5: name normalization is idempotent: _normalize_name applied to its own
\* result returns that result unchanged.
C5_NormalizeIdempotent ==
    \A i \in 2..Len(nameHist) : nameHist[i] = nameHist[i - 1]

\* _normalize_name ran twice on a name that the first run changed into a
\* non-empty result.
C5_Witness ==
    /\ Len(nameHist) >= 2
    /\ nameHist[1] # nameArg
    /\ nameHist[1] # <<>>

\* Only lower-case letters, digits and single spaces, none at either end.
IsCleanName(s) ==
    /\ \A i \in DOMAIN s : IsLower(s[i]) \/ IsDigit(s[i]) \/ s[i] = " "
    /\ \A i \in 1..(Len(s) - 1) : ~(s[i] = " " /\ s[i + 1] = " ")
    /\ s # <<>> => (s[1] # " " /\ s[Len(s)] # " ")

\* C6: every result of _normalize_name holds only lower-case letters, digits
\* and single spaces, with no space at either end: every other character of
\* the input, the underscore included, has become a separator.
C6_OnlyLettersDigitsSpaces ==
    \A i \in DOMAIN nameHist : IsCleanName(nameHist[i])

\* C7: two names that differ only in that one has an accented letter where
\* the other has its base letter have equal normalized forms.
C7_DiacriticInsensitive == cmpRes.done => cmpRes.equal

(***************************************************************************)
(* Properties of the load (checked under SpecLoad).                        *)
(***************************************************************************)
\* A record '<id><separator><name>' as the file format defines it: the text
\* before the first separator is an integer, the text after it is a name.
RefSeparatorAt(line, seps) ==
    {i \in DOMAIN line :
        line[i] \in seps /\ \A j \in 1..(i - 1) : line[j] \notin seps}
IsRefRecord(raw, seps) ==
    LET line == Strip(raw) IN
    \E i \in RefSeparatorAt(line, seps) :
        /\ AllDigits(Strip(SubSeq(line, 1, i - 1)))
        /\ Strip(SubSeq(line, i + 1, Len(line))) # <<>>
RefRecordId(raw, seps) ==
    LET line == Strip(raw)
        i == CHOOSE x \in RefSeparatorAt(line, seps) : TRUE
    IN DigitsToInt(Strip(SubSeq(line, 1, i - 1)))

CitySeparators == {"~", "|"}
StreetSeparators == {"~", "|", " ", "\t"}

BlankOrDigits(s) == Strip(s) = <<>> \/ AllDigits(Strip(s))

\* A record 'postcode6|from|to|streetId|cityId' as the file format defines it.
IsHnrRecord(raw) ==
    LET parts == SplitAll(Strip(raw), "|") IN
    /\ Len(parts) >= 5
    /\ Len(Strip(parts[1])) = 6
    /\ BlankOrDigits(parts[2]) /\ BlankOrDigits(parts[3])
    /\ AllDigits(Strip(parts[4])) /\ AllDigits(Strip(parts[5]))

\* The RangeEntry such a record stands for (from defaults to 0, to to from).
HnrRecordEntry(raw) ==
    LET parts == SplitAll(Strip(raw), "|")
        f == IF Strip(parts[2]) = <<>> THEN 0 ELSE DigitsToInt(Strip(parts[2]))
        t == IF Strip(parts[3]) = <<>> THEN f ELSE DigitsToInt(Strip(parts[3]))
    IN [pc6 |-> Strip(parts[1]), hnr_from |-> f, hnr_to |-> t,
        street_id |-> DigitsToInt(Strip(parts[4])),
        city_id |-> DigitsToInt(Strip(parts[5]))]

AllFilesExist == wplFile.exists /\ strFile.exists /\ hnrFile.exists

C9_NoNamelessEntry ==
    /\ \A i \in DOMAIN city_map : city_map[i].v # <<>>
    /\ \A i \in DOMAIN street_map : street_map[i].v # <<>>

\* C10: every RangeEntry held in the index has hnr_from <= hnr_to.
C10_RangeOrdered ==
    \A i \in DOMAIN pc6_index :
        \A j \in DOMAIN pc6_index[i].v :
            pc6_index[i].v[j].hnr_from <= pc6_index[i].v[j].hnr_to

(***************************************************************************)
(* Properties of the public functions (checked under SpecApi).             *)
(***************************************************************************)
\* The index the three reference files hold once built.
ApiIndex == BuildIndex(wplFile, strFile, hnrFile)

\* Some RangeEntry under the address's pc6 has a street name, a range and a
\* city name that match the address.
EntryMatches(idx, a) ==
    LET entries == DictGet(idx.pc6_index, Pc6Of(a), <<>>) IN
    \E i \in DOMAIN entries :
        LET e == entries[i] IN
        /\ DictHas(idx.street_map, e.street_id)
        /\ NormalizeName(DictGet(idx.street_map, e.street_id, <<>>))
               = NormalizeName(a.street_name)
        /\ e.hnr_from <= a.house_number /\ a.house_number <= e.hnr_to
        /\ DictHas(idx.city_map, e.city_id)
        /\ NormalizeName(DictGet(idx.city_map, e.city_id, <<>>))
               = NormalizeName(a.city)

\* C1: validate returns True if and only if the index holds a RangeEntry
\* under the address's pc6 whose street name, house-number range and city
\* name match the address.
C1_ValidIffEntryMatches ==
    (call.op = "validate" /\ AllFilesExist) =>
        (result = Returned(TRUE)
            <=> EntryMatches(ApiIndex,
                    NewAddress(call.street_name, call.house_number,
                               call.house_number_extension, call.postcode,
                               call.city)))

\* C2: with the three reference files in place, every public operation
\* returns a value and never raises.
C2_NeverRaises ==
    (call.op # "none" /\ AllFilesExist) => ~IsRaised(result)

\* C3: validate_lines returns False, without raising, whenever its argument
\* cannot be parsed as a two-line address.
C3_UnparsableIsFalse ==
    (call.op = "validate_lines" /\ AllFilesExist
        /\ FromLines(call.address_lines) = ValueError)
        => result = Returned(FALSE)

(***************************************************************************)
(* Properties of the queries (checked under SpecQuery).                    *)
(***************************************************************************)
\* The RangeEntries the index holds under the key pc6, as written.
EntriesUnder(pc6) == DictGet(pc6_index, pc6, <<>>)

\* The RangeEntries the index holds under pc6 in any letter case.
EntriesUnderAnyCase(pc6) ==
    {e \in UNION {Range(pc6_index[i].v) : i \in DOMAIN pc6_index} :
        Upper(e.pc6) = Upper(pc6)}

Covers(e, street_id, house_number) ==
    /\ e.street_id = street_id
    /\ e.hnr_from <= house_number /\ house_number <= e.hnr_to

\* C11: is_house_number_valid(street_id, pc6, n) returns True if and only
\* if some RangeEntry stored for that pc6 has that street id and
\* hnr_from <= n <= hnr_to; the entries "stored for that pc6" are read either
\* as those under the very key or as those under it in any letter case, and
\* the verdict has to agree with one of the two readings.
C11_ValidIffEntryCovers ==
    call.op = "is_house_number_valid" =>
        \/ result.value =
               (\E e \in Range(EntriesUnder(call.pc6)) :
                    Covers(e, call.street_id, call.house_number))
        \/ result.value =
               (\E e \in EntriesUnderAnyCase(call.pc6) :
                    Covers(e, call.street_id, call.house_number))

\* The street ids among ids that have a RangeEntry under one of pc6s: the
\* ids s with a member of pc6s in _street_id_to_pc6[s].
IdsUnder(ids, pc6s) ==
    {s \in ids : DictGet(street_id_to_pc6, s, {}) \cap pc6s # {}}

\* The postcodes the index holds that equal pc6 up to letter case.
AnyCaseOf(pc6) ==
    {p \in UNION {street_id_to_pc6[i].v : i \in DOMAIN street_id_to_pc6} :
        Upper(p) = Upper(pc6)}

\* C12: find_street_ids_by_name(name, pc6) returns exactly the street ids
\* returned by find_street_ids_by_name(name) that have at least one
\* RangeEntry under pc6, the ids s with pc6 in _street_id_to_pc6[s], for
\* every street id of the index; pc6 is read as written or up to letter
\* case, and the result has to agree with one of the two readings.
C12_ScopedIdsAreThoseUnderPc6 ==
    (call.op = "find_street_ids_by_name" /\ call.pc6 # <<>>) =>
        LET unscoped ==
                Range(FindStreetIdsByName(Self, call.street_name, <<>>))
        IN \/ Range(result.value) = IdsUnder(unscoped, {call.pc6})
           \/ Range(result.value) = IdsUnder(unscoped, AnyCaseOf(call.pc6))

\* The name a correct_city / correct_street call asks about.
AskedName(c) == IF c.op = "correct_city" THEN c.city ELSE c.street

\* The (name, normalized name) pairs in the scope of a correct_city /
\* correct_street call on the index.
InScope(c) ==
    IF c.op = "correct_city" THEN CityNamesInScope(Self, c.postcode)
    ELSE StreetNamesInScope(Self, c.postcode)

\* The in-scope names whose normalized form is the normalized query.
ExactNames(c) == NamesOf(InScope(c), {NormalizeName(AskedName(c))})

IsCorrection(c) == c.op \in {"correct_city", "correct_street"}

C14_AtMostTenSuggestions ==
    (IsCorrection(call) /\ ExactNames(call) = {}) =>
        Len(result.value) <= MaxCloseMatches

\* The similarity ratio of a reference name to the normalized query of the
\* call, as get_close_matches computes it.
RatioToQuery(name, c) ==
    Ratio(NormalizeName(name), NormalizeName(AskedName(c)))

\* name1 may stand before name2 in a list ordered by descending ratio and,
\* at equal ratio, by ascending normalized name.
MayPrecede(name1, name2, c) ==
    \/ RatioLess(RatioToQuery(name2, c), RatioToQuery(name1, c))
    \/ /\ ~RatioLess(RatioToQuery(name1, c), RatioToQuery(name2, c))
       /\ ~StrLess(NormalizeName(name2), NormalizeName(name1))

\* C15: the list returned by the fuzzy phase of correct_city /
\* correct_street is ordered by descending similarity ratio to the
\* normalized query, candidates of equal ratio by ascending order of their
\* normalized name.
C15_OrderedByDescendingRatio ==
    (IsCorrection(call) /\ ExactNames(call) = {}) =>
        \A i \in 1..(Len(result.value) - 1) :
            MayPrecede(result.value[i], result.value[i + 1], call)

\* C16: for every query and every optional postcode, the list returned by
\* correct_city and by correct_street is sorted in ascending string order
\* and holds no name twice, in the exact and in the fuzzy phase: each name
\* is strictly less than the one after it.
C16_SortedWithoutDuplicates ==
    IsCorrection(call) =>
        \A i \in 1..(Len(result.value) - 1) :
            StrLess(result.value[i], result.value[i + 1])

\* The fuzzy phase of a correction returned several names, the best match
\* not being the first of them.
C16_Witness ==
    /\ IsCorrection(call)
    /\ ExactNames(call) = {}
    /\ Len(result.value) >= 2
    /\ \E i \in 2..Len(result.value) :
         RatioLess(RatioToQuery(result.value[1], call),
                   RatioToQuery(result.value[i], call))

\* The trimmed query is a full postcode: 4 digits and 2 letters, one
\* whitespace character allowed between them.
IsFullPostcode(q) ==
    \/ IsPc6Shape(q)
    \/ Len(q) = 7 /\ IsSpace(q[5]) /\ IsPc6Shape(SubSeq(q, 1, 4) \o SubSeq(q, 6, 7))

\* The street id and the city id of the entry are ids of the maps.
Resolves(e) == DictHas(street_map, e.street_id) /\ DictHas(city_map, e.city_id)

\* The record of a RangeEntry: its street name, city name, postcode
\* 'DDDD XX' and house_number_range '<from>-<to>'.
RecordOf(e, pc6) ==
    AddressRecord(DictGet(street_map, e.street_id, None), e,
                  SubSeq(pc6, 1, 4) \o <<" ">> \o SubSeq(pc6, 5, 6),
                  DictGet(city_map, e.city_id, None))

\* One record per entry under pc6 whose ids resolve, in insertion order,
\* truncated to limit.
RecordsDue(pc6, limit) ==
    LET resolved == SelectSeq(EntriesUnder(pc6), Resolves) IN
    Take([i \in DOMAIN resolved |-> RecordOf(resolved[i], pc6)], limit)

\* C17: for a query that is a full postcode and limit >= 1, the first
\* records search_addresses returns are one record per RangeEntry stored
\* for that pc6 whose street and city ids resolve, in the entries'
\* insertion order and truncated to limit, each with that entry's street
\* name, city name, postcode 'DDDD XX' and house_number_range.
C17_OneRecordPerResolvedEntry ==
    (/\ call.op = "search_addresses"
     /\ IsFullPostcode(Upper(Strip(call.query)))
     /\ call.limit >= 1) =>
        LET due == RecordsDue(RemoveWhitespace(Upper(Strip(call.query))),
                              call.limit)
        IN /\ Len(result.value) >= Len(due)
           /\ SubSeq(result.value, 1, Len(due)) = due

\* The index maps are those of the loader L.
IndexIs(L) ==
    /\ city_map = L.city_map /\ street_map = L.street_map
    /\ pc6_index = L.pc6_index /\ pc4_index = L.pc4_index
    /\ street_id_to_pc6 = L.street_id_to_pc6
    /\ city_name_to_id = L.city_name_to_id
    /\ street_name_to_id = L.street_name_to_id

\* After the calls made so far the index is that of L, and the result of the
\* last call is what the same call returns on L as the first call ever made.
AsBuilt(L) ==
    /\ IndexIs(L)
    /\ call.op # "none" => result = Returned(Answer(BeforeAnyCall(L), call))

\* C20: no query operation mutates the index: after any sequence of calls
\* of the ten query operations, lookups of absent keys included, every
\* index map holds exactly the keys and values it held right after the
\* build, and the result of each query depends only on its arguments and
\* that index, not on the calls made before it.
C20_QueriesLeaveIndexAsBuilt ==
    AsBuilt(LoadAllData(EmptyLoader, wplFile, strFile, hnrFile))

\* A key that the index does not hold was looked up, after calls that had
\* filled both caches.
C20_Witness ==
    /\ call.op \in {"get_addresses_by_pc6", "is_house_number_valid",
                    "find_street_ids_by_name"}
    /\ call.pc6 # <<>>
    /\ ~DictHas(pc6_index, Upper(call.pc6))
    /\ Len(pc6_cache) >= 2
    /\ pc4_cache # EmptyDict

(***************************************************************************)
(* Properties of the two-line format (checked under SpecLines).            *)
(***************************************************************************)
\* No two spaces side by side.
NoRunOfSpaces(s) == \A i \in 1..(Len(s) - 1) : ~(s[i] = " " /\ s[i + 1] = " ")

\* No two whitespace characters side by side, space or other.
NoRunOfWhitespace(s) ==
    \A i \in 1..(Len(s) - 1) : ~(IsSpace(s[i]) /\ IsSpace(s[i + 1]))

\* The fields of the Address are legal in the two-line grammar as the claim
\* words it: street name and city non-empty and without runs of two or more
\* spaces, house number not negative, extension purely alphabetic, postcode
\* canonical.
LegalAsStated(a) ==
    /\ a.street_name # <<>> /\ NoRunOfSpaces(a.street_name)
    /\ a.city # <<>> /\ NoRunOfSpaces(a.city)
    /\ a.house_number >= 0
    /\ AllAlpha(a.house_number_extension)
    /\ IsCanonicalPostcode(a.postcode)

\* The same with what the code needs besides: no whitespace at either end of
\* the street name and of the city, no run of whitespace of any kind in the
\* city, ASCII letters only in the extension.
LegalInGrammar(a) ==
    /\ a.street_name # <<>> /\ Strip(a.street_name) = a.street_name
    /\ a.city # <<>> /\ Strip(a.city) = a.city /\ NoRunOfWhitespace(a.city)
    /\ a.house_number >= 0
    /\ \A i \in DOMAIN a.house_number_extension :
           IsAsciiLetter(a.house_number_extension[i])
    /\ IsCanonicalPostcode(a.postcode)

NoHouseNumber(line1) == \A i \in DOMAIN line1 : ~IsDigit(line1[i])

\* The postcode part of the second line: the text before the first run of
\* two or more whitespace characters or, when there is no such run, the
\* first two words.
PostcodePart(line2) ==
    LET parts == SplitDouble(SubRuns(Strip(line2)))
        words == SplitWs(line2)
    IN IF Len(parts) >= 2 THEN Strip(parts[1])
       ELSE JoinSpace(SubSeq(words, 1, Min(2, Len(words))))

\* A valid postcode: 4 digits and 2 letters once its spaces are removed.
IsValidPostcode(p) == IsPc6Shape(RemoveSpaces(p))

\* The input of from_lines is malformed: not exactly two lines, a first
\* line without a house number, or a second line whose postcode part is no
\* valid postcode.
Malformed(address_lines) ==
    \/ Len(address_lines) # 2
    \/ NoHouseNumber(address_lines[1])
    \/ ~IsValidPostcode(PostcodePart(address_lines[2]))

\* C19: Address.from_lines raises ValueError for every malformed input (a
\* list that is not exactly two lines, a first line without a house number,
\* a second line whose postcode part is not a valid postcode, such as
\* ["Street 1", "Invalid  City"]) and never returns an Address built from it.
C19_MalformedLinesRaise ==
    (call.op = "from_lines" /\ Malformed(call.address_lines)) =>
        result = ValueError

(***************************************************************************)
(* Properties of the search (checked under SpecSearch).                    *)
(***************************************************************************)
\* The query of a search_addresses call as the method works on it: trimmed
\* and upper-cased.
SearchedText(c) == Upper(Strip(c.query))

\* The records the postcode lookup of the call contributes.
FromPostcodeLookup(c) ==
    IF Len(SearchedText(c)) < 2 THEN <<>>
    ELSE PostcodeRecords(Self, SearchedText(c), c.limit,
                         PostcodeMatch(SearchedText(c)))

\* C21: in the city-name step of search_addresses at most the first 3
\* suggestions of correct_city are used and each contributes exactly one
\* record, so the step adds at most 3 records to those of the postcode
\* lookup.
C21_CityStepAddsAtMostThree ==
    call.op = "search_addresses" =>
        Len(result.value) <= Len(FromPostcodeLookup(call)) + MaxCitySuggestions

\* The whole text is 4 digits, or 4 digits and 2 letters with at most one
\* whitespace character between them.
IsPostcodeQuery(q) == (Len(q) = 4 /\ AllDigits(q)) \/ IsFullPostcode(q)

\* The text starts with 4 digits.
StartsWithDigits(q) == Len(q) >= 4 /\ AllDigits(SubSeq(q, 1, 4))

\* What search_addresses returns when it makes no postcode lookup: the
\* records of the city-name step alone.
WithoutPostcodeLookup(c) ==
    IF Len(SearchedText(c)) < 2 THEN <<>>
    ELSE Take(WithCitySearch(Self, SearchedText(c), c.limit, <<>>), c.limit)

\* C22: search_addresses makes the postcode lookup (pc6 or pc4) only when
\* the whole trimmed, upper-cased query is 4 digits optionally followed by 2
\* letters; a query that merely starts with 4 digits is not classified as a
\* postcode and yields no postcode or postcode-prefix records, so its
\* result is that of the city-name step alone.
C22_LookupOnlyForWholePostcode ==
    (/\ call.op = "search_addresses"
     /\ StartsWithDigits(SearchedText(call))
     /\ ~IsPostcodeQuery(SearchedText(call))) =>
        result.value = WithoutPostcodeLookup(call)

(***************************************************************************)
(* Properties of the process (checked under SpecProcess).                  *)
(***************************************************************************)
\* C23: the reference index is built exactly once per process: over any
\* sequence of calls of the public operations the three reference files
\* are loaded once, and every call is answered from that index.
C23_IndexBuiltOnce ==
    call.op # "none" => (loads = 1 /\ ~IsRaised(result))

\* What a DataLoader built anew over the present files answers to the
\* lookup c.
FreshAnswer(c) ==
    IF c.op = "get_addresses_by_pc6" THEN GetAddressesByPc6(FreshLoader, c.pc6)
    ELSE GetCitiesByPc4(FreshLoader, c.pc4)

\* C24: once the reference data has been loaded again, a lookup through
\* get_addresses_by_pc6 or get_cities_by_pc4 returns exactly what the
\* freshly loaded index holds for its key: no result memoized before the
\* reload (an empty one included) and no entry twice.
C24_LookupAfterReloadIsFresh ==
    (loads >= 2 /\ call.op \in {"get_addresses_by_pc6", "get_cities_by_pc4"})
        => result = Returned(FreshAnswer(call))

\* The DataLoader once _load_all_data has run n times to its end: the
\* first time from __init__ over the old release, then over the new one.
RECURSIVE LoaderAfterLoads(_)
LoaderAfterLoads(n) ==
    IF n <= 1
    THEN LoadAllData(EmptyLoader, OldData.wpl, OldData.str, OldData.hnr)
    ELSE LoadAllData(LoaderAfterLoads(n - 1), NewData.wpl, NewData.str,
                     NewData.hnr)

\* The complete indexes a reader may see: the one in place when no load is
\* running, else the one before the running load and the one after it.
CompleteLoaders ==
    IF loadPc = "ready" THEN {LoaderAfterLoads(loads)}
    ELSE {LoaderAfterLoads(loads - 1), LoaderAfterLoads(loads)}

\* The DataLoader the calls are made on, were its dicts those of L.
SelfWith(L) ==
    [city_map |-> L.city_map, street_map |-> L.street_map,
     pc6_index |-> L.pc6_index, pc4_index |-> L.pc4_index,
     street_id_to_pc6 |-> L.street_id_to_pc6,
     city_name_to_id |-> L.city_name_to_id,
     street_name_to_id |-> L.street_name_to_id,
     pc6_cache |-> pc6_cache, pc4_cache |-> pc4_cache]

\* A step of the reading thread: neither the loader's position nor the
\* files change.
QueryStep == UNCHANGED <<loadPc, wplFile, strFile, hnrFile>>

\* C25: a query running while the reference data is loaded again sees
\* the complete index from before the load or the complete index after it:
\* its result is the one it has on one of the two, never one made from
\* dicts of which only some have been filled from the new files.
C25_ReaderSeesCompleteIndex ==
    [][QueryStep =>
         \E L \in CompleteLoaders :
             result' = Returned(Answer(SelfWith(L), call'))]_vars

====
